---- MODULE Spec2Model ----
(***************************************************************************)
(* nscan: a network scanner.  The model covers the device store of the     *)
(* DataAggregator (src/unnamed/part_008), the Device record and its merge  *)
(* (src/src/models/Device.js), the classifiers called by the enrichment    *)
(* hook, and the phase pipeline of the ScanOrchestrator                    *)
(* (src/src/scanners/ScanOrchestrator.js) with its scanner drivers.        *)
(*                                                                         *)
(* JavaScript values are modelled by type: a string-valued field holds a   *)
(* string and "" stands for every falsy value (null, undefined, "");       *)
(* a timestamp is a natural number and 0 stands for an absent one; a list  *)
(* is a sequence and <<>> stands for an absent or empty list.              *)
(***************************************************************************)
EXTENDS Integers, Sequences, FiniteSets, TLC

\* Longest ingestion history explored in the aggregator specification.
MaxObs == 3

\* Most merges applied to one record in the merge specification.
MaxMerges == 2

\* Most observations one driver records during a scan.
MaxSightings == 1

\* Most calls of ScanOrchestrator.stop() during a scan.
MaxStops == 1

\* Most calls of EventBus.emit() followed.
MaxEmits == 2

VARIABLES
  \* DataAggregator
  devices,      \* DataAggregator.devices   : key -> Device
  ipv4Index,    \* DataAggregator.ipv4Index : IPv4 -> key
  ipv6Index,    \* DataAggregator.ipv6Index : IPv6 -> key
  now,          \* the wall clock read by new Date()
  ingested,     \* history: the observations ingested so far, in order
  last,         \* history: what the last aggregator call did
  linked,       \* history: <<MAC, key>> pairs learnt by merging into an IPv4-only record
  \* one record under Device.merge and ScanOrchestrator._mergeDevice
  mDevice,       \* the Device the observations are merged into
  mExisting,     \* the plain object the orchestrator holds for the same device
  mUpdate,       \* the observation merged last
  mPrevDevice,   \* mDevice before the last merge
  mPrevExisting, \* mExisting before the last merge
  mOp,           \* "new", "merge", or "remerge" when mUpdate was merged a second time
  mNow,          \* the wall clock of the merge specification
  \* ScanOrchestrator
  options,         \* this.options
  env,             \* the host: what is installed, what fails, what is loaded
  running,         \* this.running
  currentPhase,    \* this.currentPhase
  monitorInterval, \* this.monitorInterval is set
  scanners,        \* this.scanners: per driver, its flags and results
  netbios,         \* this.scanners.netbios holds a NetbiosResolver
  orchDevices,     \* this.devices : key -> plain device object
  pc,              \* where start() is suspended
  completed,       \* history: the SCAN_COMPLETED events broadcast
  stopLog,         \* history: the calls of stop() and how they ended
  validation,      \* what initialize() answered: "none" before the call
  scanErrors,      \* history: the SCAN_ERROR events broadcast
  expired,         \* the drivers whose discovery timer has fired
  uncaught,        \* the error that reached the process as an uncaught exception
  netbiosResults,  \* history: the addresses resolveMany() returned a name for
  \* EventBus
  listeners,       \* the listeners registered on the bus: event name -> handlers in order
  emitting,        \* the emit() call in progress and the listeners it has still to call
  delivered,       \* history: each call of a handler, and whether emit() had returned
  emits,           \* the number of emit() calls made
  \* TcpdumpScanner
  buffer,          \* this.buffer: the characters of the incomplete line
  parsedLines,     \* history: the lines handed to _parseLine, in order
  stdoutRest,      \* what tcpdump has still to write to its standard output
  stderrRest,      \* what tcpdump has still to write to its standard error
  \* MdnsScanner._parseDnsName
  msg,             \* the bytes of the received packet (msg[0] is the first)
  offset,          \* let offset: where the decoder reads next
  parts,           \* const parts: the labels decoded so far
  jumped,          \* let jumped
  jumpOffset,      \* let jumpOffset
  iteration,       \* history: the number of loop iterations begun, modulo 2
  nameResult,      \* what _parseDnsName returned
  \* NmapScanner._detailedScan
  liveHosts,       \* hosts.length: the hosts are 0 .. liveHosts - 1
  batchStart,      \* let i of the for loop
  inFlight,        \* the hosts whose _scanHost promise is pending
  scannedIn,       \* history: per host, the values of i of the batches that scanned it
  detailedScan,    \* where _detailedScan stands: "loop", "await" or "returned"
  \* NetworkUtils.getCIDRRange
  cidr,            \* the argument: an address (four octets) and the mask bits
  cidrRange,       \* what getCIDRRange returned
  \* ArpScanner._parseArpOutput
  arpLine,         \* the six groups of the hardware address in the line read
  arpDevices,      \* const devices: the address of each device pushed, and as
                   \* history the groups of the line it came from
  \* BaseScanner, per driver, and the stores its devices flow to
  wire,            \* history: what the drivers read off their tools
  scannerDevices,  \* BaseScanner.devices, in insertion order
  mergeThrew       \* the last _mergeResults was left through an exception

aggVars == <<devices, ipv4Index, ipv6Index, now, ingested, last, linked>>

mergeVars == <<mDevice, mExisting, mUpdate, mPrevDevice, mPrevExisting, mOp, mNow>>

orchVars == <<options, env, running, currentPhase, monitorInterval, scanners, netbios,
              orchDevices, pc, completed, stopLog, validation, scanErrors, expired, uncaught,
              netbiosResults>>

busVars == <<listeners, emitting, delivered, emits>>

tcpdumpVars == <<buffer, parsedLines, stdoutRest, stderrRest>>

dnsVars == <<msg, offset, parts, jumped, jumpOffset, iteration, nameResult>>

nmapVars == <<liveHosts, batchStart, inFlight, scannedIn, detailedScan>>

cidrVars == <<cidr, cidrRange>>

arpVars == <<arpLine, arpDevices>>

scanVars == <<wire, scannerDevices, mergeThrew>>

utilVars == <<busVars, tcpdumpVars, dnsVars, nmapVars, cidrVars, arpVars, scanVars>>

vars == <<aggVars, mergeVars, orchVars, utilVars>>

----------------------------------------------------------------------------
(* Text.  TLC strings are atomic, so each string the model uses is listed  *)
(* with its characters; string functions of the program work on the        *)
(* character sequences.                                                    *)

NULL == ""

CharTable ==
  ("" :> <<>>)
  @@ ("AA:BB:CC:DD:EE:01" :> <<"A", "A", ":", "B", "B", ":", "C", "C", ":", "D", "D", ":", "E", "E", ":", "0", "1">>)
  @@ ("AA-BB-CC-DD-EE-01" :> <<"A", "A", "-", "B", "B", "-", "C", "C", "-", "D", "D", "-", "E", "E", "-", "0", "1">>)
  @@ ("aa:bb:cc:dd:ee:01" :> <<"a", "a", ":", "b", "b", ":", "c", "c", ":", "d", "d", ":", "e", "e", ":", "0", "1">>)
  @@ ("00:1A:11:AA:BB:CC" :> <<"0", "0", ":", "1", "A", ":", "1", "1", ":", "A", "A", ":", "B", "B", ":", "C", "C">>)
  @@ ("0:0:5e:0:1:f" :> <<"0", ":", "0", ":", "5", "e", ":", "0", ":", "1", ":", "f">>)
  @@ ("fe80::1" :> <<"f", "e", "8", "0", ":", ":", "1">>)
  @@ ("fe80::1%eth0" :> <<"f", "e", "8", "0", ":", ":", "1", "%", "e", "t", "h", "0">>)
  @@ ("2001:db8::2" :> <<"2", "0", "0", "1", ":", "d", "b", "8", ":", ":", "2">>)
  @@ ("192.168.1.10" :> <<"1", "9", "2", ".", "1", "6", "8", ".", "1", ".", "1", "0">>)
  @@ ("192.168.1.20" :> <<"1", "9", "2", ".", "1", "6", "8", ".", "1", ".", "2", "0">>)
  @@ ("router" :> <<"r", "o", "u", "t", "e", "r">>)
  @@ ("gateway" :> <<"g", "a", "t", "e", "w", "a", "y">>)
  @@ ("host-a" :> <<"h", "o", "s", "t", "-", "a">>)
  @@ ("Google" :> <<"G", "o", "o", "g", "l", "e">>)
  @@ ("Linux" :> <<"L", "i", "n", "u", "x">>)
  @@ ("Windows" :> <<"W", "i", "n", "d", "o", "w", "s">>)
  @@ ("macOS" :> <<"m", "a", "c", "O", "S">>)
  @@ ("iOS" :> <<"i", "O", "S">>)
  @@ ("Android" :> <<"A", "n", "d", "r", "o", "i", "d">>)
  @@ ("Apple Device" :> <<"A", "p", "p", "l", "e", " ", "D", "e", "v", "i", "c", "e">>)
  @@ ("ssh" :> <<"s", "s", "h">>)
  @@ ("listening on" :> <<"l", "i", "s", "t", "e", "n", "i", "n", "g", " ", "o", "n">>)
  @@ ("packets" :> <<"p", "a", "c", "k", "e", "t", "s">>)
  @@ ("ipp" :> <<"i", "p", "p">>)
  @@ ("_ipp._tcp" :> <<"_", "i", "p", "p", ".", "_", "t", "c", "p">>)
  @@ ("Printer" :> <<"P", "r", "i", "n", "t", "e", "r">>)
  @@ ("OpenSSH 8.9" :> <<"O", "p", "e", "n", "S", "S", "H", " ", "8", ".", "9">>)
  @@ ("22.04" :> <<"2", "2", ".", "0", "4">>)
  @@ ("WORKGROUP" :> <<"W", "O", "R", "K", "G", "R", "O", "U", "P">>)
  @@ ("iphone" :> <<"i", "p", "h", "o", "n", "e">>)
  @@ ("ipad" :> <<"i", "p", "a", "d">>)
  @@ ("android" :> <<"a", "n", "d", "r", "o", "i", "d">>)
  @@ ("macbook" :> <<"m", "a", "c", "b", "o", "o", "k">>)
  @@ ("mac" :> <<"m", "a", "c">>)
  @@ ("windows" :> <<"w", "i", "n", "d", "o", "w", "s">>)
  @@ ("win" :> <<"w", "i", "n">>)
  @@ ("pc" :> <<"p", "c">>)
  @@ ("linux" :> <<"l", "i", "n", "u", "x">>)
  @@ ("ubuntu" :> <<"u", "b", "u", "n", "t", "u">>)
  @@ ("debian" :> <<"d", "e", "b", "i", "a", "n">>)
  @@ ("microsoft" :> <<"m", "i", "c", "r", "o", "s", "o", "f", "t">>)
  @@ ("openssh" :> <<"o", "p", "e", "n", "s", "s", "h">>)
  @@ ("apple" :> <<"a", "p", "p", "l", "e">>)
  @@ ("raspberry" :> <<"r", "a", "s", "p", "b", "e", "r", "r", "y">>)
  @@ ("pi" :> <<"p", "i">>)
  @@ ("cisco" :> <<"c", "i", "s", "c", "o">>)
  @@ ("juniper" :> <<"j", "u", "n", "i", "p", "e", "r">>)
  @@ ("netgear" :> <<"n", "e", "t", "g", "e", "a", "r">>)
  @@ ("tp-link" :> <<"t", "p", "-", "l", "i", "n", "k">>)
  @@ ("asus" :> <<"a", "s", "u", "s">>)
  @@ ("linksys" :> <<"l", "i", "n", "k", "s", "y", "s">>)
  @@ ("ubiquiti" :> <<"u", "b", "i", "q", "u", "i", "t", "i">>)
  @@ ("d-link" :> <<"d", "-", "l", "i", "n", "k">>)
  @@ ("mikrotik" :> <<"m", "i", "k", "r", "o", "t", "i", "k">>)
  @@ ("samsung" :> <<"s", "a", "m", "s", "u", "n", "g">>)
  @@ ("google" :> <<"g", "o", "o", "g", "l", "e">>)
  @@ ("huawei" :> <<"h", "u", "a", "w", "e", "i">>)
  @@ ("xiaomi" :> <<"x", "i", "a", "o", "m", "i">>)
  @@ ("oneplus" :> <<"o", "n", "e", "p", "l", "u", "s">>)
  @@ ("espressif" :> <<"e", "s", "p", "r", "e", "s", "s", "i", "f">>)
  @@ ("arduino" :> <<"a", "r", "d", "u", "i", "n", "o">>)
  @@ ("hp" :> <<"h", "p">>)
  @@ ("canon" :> <<"c", "a", "n", "o", "n">>)
  @@ ("epson" :> <<"e", "p", "s", "o", "n">>)
  @@ ("brother" :> <<"b", "r", "o", "t", "h", "e", "r">>)
  @@ ("lexmark" :> <<"l", "e", "x", "m", "a", "r", "k">>)
  @@ ("xerox" :> <<"x", "e", "r", "o", "x">>)
  @@ ("lg" :> <<"l", "g">>)
  @@ ("sony" :> <<"s", "o", "n", "y">>)
  @@ ("roku" :> <<"r", "o", "k", "u">>)
  @@ ("amazon" :> <<"a", "m", "a", "z", "o", "n">>)
  @@ ("synology" :> <<"s", "y", "n", "o", "l", "o", "g", "y">>)
  @@ ("qnap" :> <<"q", "n", "a", "p">>)
  @@ ("seagate" :> <<"s", "e", "a", "g", "a", "t", "e">>)
  @@ ("hikvision" :> <<"h", "i", "k", "v", "i", "s", "i", "o", "n">>)
  @@ ("dahua" :> <<"d", "a", "h", "u", "a">>)
  @@ ("axis" :> <<"a", "x", "i", "s">>)
  @@ ("nest" :> <<"n", "e", "s", "t">>)
  @@ ("ring" :> <<"r", "i", "n", "g">>)
  @@ ("gw" :> <<"g", "w">>)
  @@ ("firewall" :> <<"f", "i", "r", "e", "w", "a", "l", "l">>)
  @@ ("switch" :> <<"s", "w", "i", "t", "c", "h">>)
  @@ ("sw" :> <<"s", "w">>)
  @@ ("ap" :> <<"a", "p">>)
  @@ ("accesspoint" :> <<"a", "c", "c", "e", "s", "s", "p", "o", "i", "n", "t">>)
  @@ ("access-point" :> <<"a", "c", "c", "e", "s", "s", "-", "p", "o", "i", "n", "t">>)
  @@ ("access_point" :> <<"a", "c", "c", "e", "s", "s", "_", "p", "o", "i", "n", "t">>)
  @@ ("wifi" :> <<"w", "i", "f", "i">>)
  @@ ("server" :> <<"s", "e", "r", "v", "e", "r">>)
  @@ ("srv" :> <<"s", "r", "v">>)
  @@ ("web" :> <<"w", "e", "b">>)
  @@ ("mail" :> <<"m", "a", "i", "l">>)
  @@ ("db" :> <<"d", "b">>)
  @@ ("database" :> <<"d", "a", "t", "a", "b", "a", "s", "e">>)
  @@ ("desktop" :> <<"d", "e", "s", "k", "t", "o", "p">>)
  @@ ("workstation" :> <<"w", "o", "r", "k", "s", "t", "a", "t", "i", "o", "n">>)
  @@ ("computer" :> <<"c", "o", "m", "p", "u", "t", "e", "r">>)
  @@ ("laptop" :> <<"l", "a", "p", "t", "o", "p">>)
  @@ ("notebook" :> <<"n", "o", "t", "e", "b", "o", "o", "k">>)
  @@ ("mobile" :> <<"m", "o", "b", "i", "l", "e">>)
  @@ ("phone" :> <<"p", "h", "o", "n", "e">>)
  @@ ("tablet" :> <<"t", "a", "b", "l", "e", "t">>)
  @@ ("esp" :> <<"e", "s", "p">>)
  @@ ("iot" :> <<"i", "o", "t">>)
  @@ ("sensor" :> <<"s", "e", "n", "s", "o", "r">>)
  @@ ("hue" :> <<"h", "u", "e">>)
  @@ ("alexa" :> <<"a", "l", "e", "x", "a">>)
  @@ ("echo" :> <<"e", "c", "h", "o">>)
  @@ ("googlehome" :> <<"g", "o", "o", "g", "l", "e", "h", "o", "m", "e">>)
  @@ ("google-home" :> <<"g", "o", "o", "g", "l", "e", "-", "h", "o", "m", "e">>)
  @@ ("google_home" :> <<"g", "o", "o", "g", "l", "e", "_", "h", "o", "m", "e">>)
  @@ ("printer" :> <<"p", "r", "i", "n", "t", "e", "r">>)
  @@ ("print" :> <<"p", "r", "i", "n", "t">>)
  @@ ("scanner" :> <<"s", "c", "a", "n", "n", "e", "r">>)
  @@ ("scan" :> <<"s", "c", "a", "n">>)
  @@ ("tv" :> <<"t", "v">>)
  @@ ("chromecast" :> <<"c", "h", "r", "o", "m", "e", "c", "a", "s", "t">>)
  @@ ("firestick" :> <<"f", "i", "r", "e", "s", "t", "i", "c", "k">>)
  @@ ("appletv" :> <<"a", "p", "p", "l", "e", "t", "v">>)
  @@ ("xbox" :> <<"x", "b", "o", "x">>)
  @@ ("playstation" :> <<"p", "l", "a", "y", "s", "t", "a", "t", "i", "o", "n">>)
  @@ ("ps" :> <<"p", "s">>)
  @@ ("nintendo" :> <<"n", "i", "n", "t", "e", "n", "d", "o">>)
  @@ ("nas" :> <<"n", "a", "s">>)
  @@ ("storage" :> <<"s", "t", "o", "r", "a", "g", "e">>)
  @@ ("fileserver" :> <<"f", "i", "l", "e", "s", "e", "r", "v", "e", "r">>)
  @@ ("camera" :> <<"c", "a", "m", "e", "r", "a">>)
  @@ ("cam" :> <<"c", "a", "m">>)
  @@ ("ipcam" :> <<"i", "p", "c", "a", "m">>)
  @@ ("security" :> <<"s", "e", "c", "u", "r", "i", "t", "y">>)
  @@ ("ios" :> <<"i", "o", "s">>)
  @@ ("darwin" :> <<"d", "a", "r", "w", "i", "n">>)
  @@ ("openwrt" :> <<"o", "p", "e", "n", "w", "r", "t">>)
  @@ ("dd-wrt" :> <<"d", "d", "-", "w", "r", "t">>)
  @@ ("embedded" :> <<"e", "m", "b", "e", "d", "d", "e", "d">>)
  @@ ("fe80:" :> <<"f", "e", "8", "0", ":">>)
  @@ ("fc" :> <<"f", "c">>)
  @@ ("fd" :> <<"f", "d">>)
  @@ ("ff" :> <<"f", "f">>)
  @@ ("::1" :> <<":", ":", "1">>)
  @@ ("texas instruments" :> <<"t", "e", "x", "a", "s", " ", "i", "n", "s", "t", "r", "u", "m", "e", "n", "t", "s">>)
  @@ ("western digital" :> <<"w", "e", "s", "t", "e", "r", "n", " ", "d", "i", "g", "i", "t", "a", "l">>)

Chars(s) == CharTable[s]

\* The string spelled by a character sequence.
Text(cs) == CHOOSE s \in DOMAIN CharTable : CharTable[s] = cs

LowerLetters ==
  <<"a","b","c","d","e","f","g","h","i","j","k","l","m",
    "n","o","p","q","r","s","t","u","v","w","x","y","z">>

UpperLetters ==
  <<"A","B","C","D","E","F","G","H","I","J","K","L","M",
    "N","O","P","Q","R","S","T","U","V","W","X","Y","Z">>

Digits == {"0","1","2","3","4","5","6","7","8","9"}

ToUpperChar(c) ==
  IF \E i \in DOMAIN LowerLetters : LowerLetters[i] = c
    THEN UpperLetters[CHOOSE i \in DOMAIN LowerLetters : LowerLetters[i] = c]
    ELSE c

ToLowerChar(c) ==
  IF \E i \in DOMAIN UpperLetters : UpperLetters[i] = c
    THEN LowerLetters[CHOOSE i \in DOMAIN UpperLetters : UpperLetters[i] = c]
    ELSE c

ToUpperCase(cs) == [i \in 1..Len(cs) |-> ToUpperChar(cs[i])]

ToLowerCase(cs) == [i \in 1..Len(cs) |-> ToLowerChar(cs[i])]

\* String.prototype.startsWith
StartsWith(cs, pat) ==
  Len(pat) <= Len(cs) /\ SubSeq(cs, 1, Len(pat)) = pat

\* String.prototype.includes
Includes(cs, pat) ==
  \E i \in 0..(Len(cs) - Len(pat)) : SubSeq(cs, i + 1, i + Len(pat)) = pat

\* a match of the regular expression  <pat>\d+
IncludesThenDigit(cs, pat) ==
  \E i \in 0..(Len(cs) - Len(pat) - 1) :
    /\ SubSeq(cs, i + 1, i + Len(pat)) = pat
    /\ cs[i + Len(pat) + 1] \in Digits

\* s.split(sep)[0]
BeforeFirst(cs, sep) ==
  IF \E i \in 1..Len(cs) : cs[i] = sep
    THEN SubSeq(cs, 1, (CHOOSE i \in 1..Len(cs) :
                          cs[i] = sep /\ \A j \in 1..(i - 1) : cs[j] # sep) - 1)
    ELSE cs

\* JavaScript  a || b  on string-valued fields
Or(a, b) == IF a # NULL THEN a ELSE b

\* [...new Set(list)] : the list without repeats, first occurrences kept
Dedup(list) ==
  LET keep == SelectSeq([i \in 1..Len(list) |-> <<i, list[i]>>],
                        LAMBDA p : ~ \E j \in 1..(p[1] - 1) : list[j] = p[2])
  IN  [i \in 1..Len(keep) |-> keep[i][2]]

Range(list) == {list[i] : i \in 1..Len(list)}

----------------------------------------------------------------------------
(* NetworkUtils (src/unnamed/part_011)                                     *)

\* number of hex digits of a MAC address
MacHexLen == 12

\* cleaned.match(/.{2}/g).join(':')
JoinPairs(cs) ==
  [i \in 1..(Len(cs) + (Len(cs) \div 2) - 1) |->
     IF i % 3 = 0 THEN ":" ELSE cs[i - (i \div 3)]]

\* mac.replace(/[:-]/g, '').toUpperCase()
cleanedMac(cs) == ToUpperCase(SelectSeq(cs, LAMBDA c : c \notin {":", "-"}))

\* normalizeMac on the characters of the address
normalizeMacChars(cs) ==
  IF Len(cleanedMac(cs)) # MacHexLen THEN cs ELSE JoinPairs(cleanedMac(cs))

normalizeMac(mac) ==
  IF Len(cleanedMac(Chars(mac))) # MacHexLen THEN mac ELSE Text(normalizeMacChars(Chars(mac)))

HexDigits == <<"0","1","2","3","4","5","6","7","8","9","a","b","c","d","e","f">>

IsHex(c) == \E i \in DOMAIN HexDigits : HexDigits[i] = c

HexValue(c) == (CHOOSE i \in DOMAIN HexDigits : HexDigits[i] = c) - 1

\* parseInt(cs, 16) of a lower-case string; -1 stands for NaN
RECURSIVE ParseHexFrom(_, _, _)
ParseHexFrom(cs, i, acc) ==
  IF i > Len(cs) \/ ~IsHex(cs[i]) THEN acc
  ELSE ParseHexFrom(cs, i + 1, (IF acc < 0 THEN 0 ELSE acc) * 16 + HexValue(cs[i]))

ParseHex(cs) == ParseHexFrom(cs, 1, -1)

\* stripIPv6ZoneId, as the characters of its result
stripIPv6ZoneId(ip) == BeforeFirst(Chars(ip), "%")

\* ip.split('%')[0].toLowerCase()
ZoneStrippedLower(ip) == ToLowerCase(BeforeFirst(Chars(ip), "%"))

isLinkLocalIPv6(ip) ==
  ip # NULL /\ StartsWith(ZoneStrippedLower(ip), Chars("fe80:"))

\* 0x2000 and 0x3fff
GlobalUnicastLow == 8192

GlobalUnicastHigh == 16383

isGlobalUnicastIPv6(ip) ==
  /\ ip # NULL
  /\ LET firstValue == ParseHex(BeforeFirst(ZoneStrippedLower(ip), ":"))
     IN  firstValue >= GlobalUnicastLow /\ firstValue <= GlobalUnicastHigh

isUniqueLocalIPv6(ip) ==
  /\ ip # NULL
  /\ \/ StartsWith(ZoneStrippedLower(ip), Chars("fc"))
     \/ StartsWith(ZoneStrippedLower(ip), Chars("fd"))

isMulticastIPv6(ip) ==
  ip # NULL /\ StartsWith(ZoneStrippedLower(ip), Chars("ff"))

getIPv6Type(ip) ==
  IF isLinkLocalIPv6(ip) THEN "link-local"
  ELSE IF isGlobalUnicastIPv6(ip) THEN "global"
  ELSE IF isUniqueLocalIPv6(ip) THEN "unique-local"
  ELSE IF isMulticastIPv6(ip) THEN "multicast"
  ELSE IF ip # NULL /\ ToLowerCase(Chars(ip)) = Chars("::1") THEN "loopback"
  ELSE "unknown"

----------------------------------------------------------------------------
(* Device (src/src/models/Device.js)                                       *)

ScalarFields ==
  {"ipv4", "mac", "hostname", "manufacturer", "os", "osVersion", "model",
   "workgroup", "fqdn"}

\* Device._normalizeIPv6Array: each address string becomes {address, type}
normalizeIPv6Array(ipv6) ==
  [i \in 1..Len(ipv6) |-> [address |-> ipv6[i], type |-> getIPv6Type(ipv6[i])]]

ScoreIp == 15
ScoreIpv6 == 10
ScoreMac == 20
ScoreHostname == 10
ScoreManufacturer == 10
ScoreOs == 15
ScoreModel == 10
ScoreUsage == 10
ScorePorts == 5
ScoreDualStack == 5
ScoreCap == 100

Min(a, b) == IF a < b THEN a ELSE b

\* Device._calculateConfidence
calculateConfidence(d) ==
  Min( (IF d.ip # NULL \/ d.ipv4 # NULL THEN ScoreIp ELSE 0)
     + (IF Len(d.ipv6) > 0 THEN ScoreIpv6 ELSE 0)
     + (IF d.mac # NULL THEN ScoreMac ELSE 0)
     + (IF d.hostname # NULL THEN ScoreHostname ELSE 0)
     + (IF d.manufacturer # NULL THEN ScoreManufacturer ELSE 0)
     + (IF d.os # NULL THEN ScoreOs ELSE 0)
     + (IF d.model # NULL THEN ScoreModel ELSE 0)
     + (IF d.usage # NULL THEN ScoreUsage ELSE 0)
     + (IF Len(d.ports) > 0 THEN ScorePorts ELSE 0)
     + (IF (d.ip # NULL \/ d.ipv4 # NULL) /\ Len(d.ipv6) > 0 THEN ScoreDualStack ELSE 0),
     ScoreCap)

keepConfidence(d) == d

\* Device.updateConfidence
updateConfidence(d) == [d EXCEPT !.confidence = calculateConfidence(d)]

\* new Device(data), constructed at time t
NewDevice(data, t) ==
  LET d == [ ip           |-> data.ip,
             ipv4         |-> Or(data.ipv4, data.ip),
             ipv6         |-> normalizeIPv6Array(data.ipv6),
             mac          |-> IF data.mac # NULL THEN normalizeMac(data.mac) ELSE NULL,
             hostname     |-> data.hostname,
             manufacturer |-> data.manufacturer,
             os           |-> data.os,
             osVersion    |-> data.osVersion,
             model        |-> data.model,
             usage        |-> data.usage,
             ports        |-> data.ports,
             services     |-> data.services,
             sources      |-> data.sources,
             lastSeen     |-> IF data.lastSeen # 0 THEN data.lastSeen ELSE t,
             firstSeen    |-> IF data.firstSeen # 0 THEN data.firstSeen ELSE t,
             confidence   |-> 0,
             workgroup    |-> data.workgroup,
             fqdn         |-> data.fqdn,
             discoveredVia |-> data.discoveredVia ]
  IN  [d EXCEPT !.confidence =
         IF data.confidence # 0 THEN data.confidence ELSE calculateConfidence(d)]

\* Device.addIPv6: append the address unless an entry with that text exists
addIPv6(ipv6, address) ==
  IF \E i \in 1..Len(ipv6) : ipv6[i].address = address
    THEN ipv6
    ELSE Append(ipv6, [address |-> address, type |-> getIPv6Type(address)])

RECURSIVE addAllIPv6(_, _)
addAllIPv6(ipv6, addrs) ==
  IF addrs = <<>> THEN ipv6
  ELSE addAllIPv6(addIPv6(ipv6, Head(addrs)), Tail(addrs))

MergeAsNewDevice(d, data, t) == NewDevice(data, t)

\* Device.merge(data) at time t
Merge(d, data, t) ==
  updateConfidence(
    [d EXCEPT
       !.ip           = Or(data.ip, d.ip),
       !.ipv4         = Or(data.ipv4, Or(data.ip, d.ipv4)),
       !.mac          = IF data.mac # NULL THEN normalizeMac(data.mac) ELSE d.mac,
       !.hostname     = Or(data.hostname, d.hostname),
       !.manufacturer = Or(data.manufacturer, d.manufacturer),
       !.os           = Or(data.os, d.os),
       !.osVersion    = Or(data.osVersion, d.osVersion),
       !.model        = Or(data.model, d.model),
       !.usage        = Or(data.usage, d.usage),
       !.workgroup    = Or(data.workgroup, d.workgroup),
       !.fqdn         = Or(data.fqdn, d.fqdn),
       !.ipv6         = addAllIPv6(d.ipv6, data.ipv6),
       !.ports        = IF data.ports # <<>> THEN Dedup(d.ports \o data.ports) ELSE d.ports,
       !.services     = d.services \o data.services,
       !.sources      = IF data.sources # <<>> THEN Dedup(d.sources \o data.sources) ELSE d.sources,
       !.discoveredVia =
         IF data.discoveredVia # <<>> THEN Dedup(d.discoveredVia \o data.discoveredVia)
         ELSE d.discoveredVia,
       !.lastSeen     = IF data.lastSeen # 0 THEN data.lastSeen ELSE t ])

----------------------------------------------------------------------------
(* ManufacturerResolver (src/src/analyzers/ManufacturerResolver.js)        *)

\* the OUI database of the oui-data package, restricted to the prefixes of
\* the MAC addresses the model uses: keys are six upper-case hex digits
OuiDatabase == (<<"0","0","1","A","1","1">> :> "Google")

\* s.split(':').slice(0, 3).join(':')
RECURSIVE FirstGroups(_, _)
FirstGroups(cs, n) ==
  IF n = 1 THEN BeforeFirst(cs, ":")
  ELSE LET g == BeforeFirst(cs, ":")
       IN  IF Len(g) = Len(cs) THEN cs
           ELSE g \o <<":">> \o FirstGroups(SubSeq(cs, Len(g) + 2, Len(cs)), n - 1)

getMacOUI(mac) == FirstGroups(Chars(normalizeMac(mac)), 3)

Replace(cs, from, to) == [i \in 1..Len(cs) |-> IF cs[i] = from THEN to ELSE cs[i]]

\* ManufacturerResolver._lookupOUI
lookupOUI(oui) ==
  LET ouiKey        == ToUpperCase(SelectSeq(oui, LAMBDA c : c # ":"))
      ouiWithDashes == ToUpperCase(Replace(oui, ":", "-"))
      ouiLower      == ToLowerCase(ouiKey)
  IN  IF oui = <<>> THEN NULL
      ELSE IF ouiKey \in DOMAIN OuiDatabase THEN OuiDatabase[ouiKey]
      ELSE IF ouiWithDashes \in DOMAIN OuiDatabase THEN OuiDatabase[ouiWithDashes]
      ELSE IF ouiLower \in DOMAIN OuiDatabase THEN OuiDatabase[ouiLower]
      ELSE NULL

\* ManufacturerResolver.resolve (its cache only memoises the lookup)
resolve(mac) == IF mac = NULL THEN NULL ELSE lookupOUI(getMacOUI(mac))

----------------------------------------------------------------------------
(* OsDetector (src/src/cli.js, second half)                                *)

IncludesAny(cs, pats) == \E p \in pats : Includes(cs, Chars(p))

\* OsDetector._detectFromHostname
detectFromHostname(hostname) ==
  LET lower == ToLowerCase(Chars(hostname))
  IN  IF IncludesAny(lower, {"iphone", "ipad"}) THEN "iOS"
      ELSE IF IncludesAny(lower, {"android"}) THEN "Android"
      ELSE IF IncludesAny(lower, {"macbook", "mac"}) THEN "macOS"
      ELSE IF IncludesAny(lower, {"windows", "win", "pc"}) THEN "Windows"
      ELSE IF IncludesAny(lower, {"linux", "ubuntu", "debian"}) THEN "Linux"
      ELSE NULL

\* the verdict of one service name in the loop of _detectFromServices
ServiceNameOs(service) ==
  LET svcLower == ToLowerCase(Chars(service.service))
  IN  IF service.service = NULL THEN NULL
      ELSE IF IncludesAny(svcLower, {"microsoft", "windows"}) THEN "Windows"
      ELSE IF Includes(svcLower, Chars("ssh")) /\ Includes(svcLower, Chars("openssh"))
        THEN "Linux"
      ELSE NULL

\* OsDetector._detectFromServices
detectFromServices(data) ==
  LET ports == Range(data.ports)
      hits  == SelectSeq(data.services, LAMBDA s : ServiceNameOs(s) # NULL)
  IN  IF 3389 \in ports \/ 445 \in ports THEN "Windows"
      ELSE IF 5353 \in ports THEN "macOS"
      ELSE IF 22 \in ports /\ 3389 \notin ports THEN "Linux"
      ELSE IF hits # <<>> THEN ServiceNameOs(Head(hits))
      ELSE NULL

\* OsDetector._detectFromManufacturer
detectFromManufacturer(manufacturer) ==
  LET lower == ToLowerCase(Chars(manufacturer))
  IN  IF Includes(lower, Chars("apple")) THEN "Apple Device"
      ELSE IF Includes(lower, Chars("microsoft")) THEN "Windows"
      ELSE IF IncludesAny(lower, {"raspberry", "pi"}) THEN "Linux"
      ELSE NULL

\* OsDetector.detect for a device whose os field is unset, which is how
\* enrichDevice calls it: the hostname, services and manufacturer rules.
\* None of them yields a version.
detect(data) ==
  [ os |-> Or(IF data.hostname # NULL THEN detectFromHostname(data.hostname) ELSE NULL,
           Or(detectFromServices(data),
              IF data.manufacturer # NULL THEN detectFromManufacturer(data.manufacturer)
              ELSE NULL)),
    osVersion |-> NULL ]

----------------------------------------------------------------------------
(* UsageInferrer (src/src/analyzers/UsageInferrer.js)                      *)

\* Object.values(UsageTypes), in insertion order
UsageOrder ==
  <<"Router/Gateway", "Switch", "Access Point", "Server", "Computer/Workstation",
    "Laptop", "Mobile Device", "IoT Device", "Smart Home Device", "Printer/Scanner",
    "TV/Media Device", "Gaming Console", "Storage/NAS", "Camera/Security", "Unknown">>

manufacturerPatterns(type) ==
  CASE type = "Router/Gateway" ->
         {"cisco", "juniper", "netgear", "tp-link", "asus", "linksys", "ubiquiti",
          "d-link", "mikrotik"}
    [] type = "Mobile Device" -> {"apple", "samsung", "google", "huawei", "xiaomi", "oneplus"}
    [] type = "IoT Device" -> {"raspberry", "espressif", "arduino", "texas instruments"}
    [] type = "Printer/Scanner" -> {"hp", "canon", "epson", "brother", "lexmark", "xerox"}
    [] type = "TV/Media Device" -> {"samsung", "lg", "sony", "roku", "amazon"}
    [] type = "Storage/NAS" -> {"synology", "qnap", "western digital", "seagate"}
    [] type = "Camera/Security" -> {"hikvision", "dahua", "axis", "nest", "ring"}
    [] OTHER -> {}

\* hostnamePatterns: each regular expression is an alternation of literals
\* (lits) and of literals followed by \d+ (digitLits); [-_]? is expanded
hostnamePatterns(type) ==
  CASE type = "Router/Gateway" ->
         [lits |-> {"router", "gateway", "gw", "firewall"}, digitLits |-> {}]
    [] type = "Switch" -> [lits |-> {"switch"}, digitLits |-> {"sw"}]
    [] type = "Access Point" ->
         [lits |-> {"accesspoint", "access-point", "access_point", "wifi"},
          digitLits |-> {"ap"}]
    [] type = "Server" ->
         [lits |-> {"server", "srv", "web", "mail", "db", "database"}, digitLits |-> {}]
    [] type = "Computer/Workstation" ->
         [lits |-> {"desktop", "pc", "workstation", "computer"}, digitLits |-> {}]
    [] type = "Laptop" -> [lits |-> {"laptop", "notebook", "macbook"}, digitLits |-> {}]
    [] type = "Mobile Device" ->
         [lits |-> {"iphone", "ipad", "android", "mobile", "phone", "tablet"},
          digitLits |-> {}]
    [] type = "IoT Device" ->
         [lits |-> {"esp", "arduino", "pi", "iot", "sensor"}, digitLits |-> {}]
    [] type = "Smart Home Device" ->
         [lits |-> {"nest", "hue", "alexa", "echo", "googlehome", "google-home",
                    "google_home"},
          digitLits |-> {}]
    [] type = "Printer/Scanner" ->
         [lits |-> {"printer", "print", "scanner", "scan"}, digitLits |-> {}]
    [] type = "TV/Media Device" ->
         [lits |-> {"tv", "roku", "chromecast", "firestick", "appletv"}, digitLits |-> {}]
    [] type = "Gaming Console" ->
         [lits |-> {"xbox", "playstation", "nintendo", "switch"}, digitLits |-> {"ps"}]
    [] type = "Storage/NAS" -> [lits |-> {"nas", "storage", "fileserver"}, digitLits |-> {}]
    [] type = "Camera/Security" ->
         [lits |-> {"camera", "ipcam", "security"}, digitLits |-> {"cam"}]
    [] OTHER -> [lits |-> {}, digitLits |-> {}]

portIndicators(type) ==
  CASE type = "Router/Gateway" -> {53, 67, 68}
    [] type = "Server" -> {80, 443, 8080, 8443, 22}
    [] type = "Computer/Workstation" -> {445, 3389, 5900}
    [] type = "Printer/Scanner" -> {631, 9100, 515}
    [] type = "Storage/NAS" -> {139, 445, 2049, 873}
    [] type = "IoT Device" -> {1883, 8883}
    [] type = "Camera/Security" -> {554, 8000, 8080}
    [] OTHER -> {}

\* UsageInferrer._scoreByManufacturer: +5 for every pattern the name contains
scoreByManufacturer(manufacturer, type) ==
  5 * Cardinality({p \in manufacturerPatterns(type) :
                     Includes(ToLowerCase(Chars(manufacturer)), Chars(p))})

\* UsageInferrer._scoreByHostname: +4 when the type's expression matches
scoreByHostname(hostname, type) ==
  LET lower == ToLowerCase(Chars(hostname))
      pat   == hostnamePatterns(type)
  IN  IF \/ \E p \in pat.lits : Includes(lower, Chars(p))
         \/ \E p \in pat.digitLits : IncludesThenDigit(lower, Chars(p))
        THEN 4 ELSE 0

\* UsageInferrer._scoreByPorts
scoreByPorts(portList, type) ==
  LET ports == Range(portList)
  IN  2 * Cardinality(portIndicators(type) \cap ports)
      + (IF type = "Server" /\ (80 \in ports \/ 443 \in ports) THEN 2 ELSE 0)
      + (IF type \in {"Server", "IoT Device"} /\ 22 \in ports /\ 3389 \notin ports
           THEN 1 ELSE 0)
      + (IF type = "Computer/Workstation" /\ (3389 \in ports \/ 445 \in ports)
           THEN 3 ELSE 0)
      + (IF type \in {"Computer/Workstation", "Mobile Device"} /\ 5353 \in ports
           THEN 1 ELSE 0)

\* UsageInferrer._scoreByOS
scoreByOS(os, type) ==
  LET lower == ToLowerCase(Chars(os))
  IN  IF IncludesAny(lower, {"ios", "iphone", "ipad"})
        THEN (IF type = "Mobile Device" THEN 6 ELSE 0)
      ELSE IF IncludesAny(lower, {"android"})
        THEN (IF type = "Mobile Device" THEN 6 ELSE 0)
      ELSE IF IncludesAny(lower, {"windows"})
        THEN (IF type = "Computer/Workstation" THEN 4 ELSE 0)
      ELSE IF IncludesAny(lower, {"mac", "darwin"})
        THEN (IF type = "Computer/Workstation" THEN 4 ELSE 0)
      ELSE IF IncludesAny(lower, {"linux", "ubuntu", "debian"})
        THEN (IF type = "Server" THEN 3 ELSE IF type = "IoT Device" THEN 2 ELSE 0)
      ELSE IF IncludesAny(lower, {"openwrt", "dd-wrt"})
        THEN (IF type = "Router/Gateway" THEN 5 ELSE 0)
      ELSE IF IncludesAny(lower, {"embedded"})
        THEN (IF type = "IoT Device" THEN 4 ELSE 0)
      ELSE 0

\* the score the inferrer gives the device for one usage type
usageScore(device, type) ==
    (IF device.manufacturer # NULL THEN scoreByManufacturer(device.manufacturer, type) ELSE 0)
  + (IF device.hostname # NULL THEN scoreByHostname(device.hostname, type) ELSE 0)
  + (IF Len(device.ports) > 0 THEN scoreByPorts(device.ports, type) ELSE 0)
  + (IF device.os # NULL THEN scoreByOS(device.os, type) ELSE 0)

\* usage is kept only above this confidence (DataAggregator.enrichDevice)
UsageThreshold == 30

\* the scores of all usage types, in the order of UsageOrder
usageScores(device) == [i \in DOMAIN UsageOrder |-> usageScore(device, UsageOrder[i])]

\* the highest score, 0 when no type scores
maxOf(scores) ==
  CHOOSE m \in {0} \cup Range(scores) : \A i \in DOMAIN scores : scores[i] <= m

\* the loop of infer keeps the first type whose score exceeds all earlier
\* ones; with no positive score the usage stays UsageTypes.UNKNOWN
bestOf(scores, maxScore) ==
  IF maxScore = 0 THEN Len(UsageOrder)
  ELSE CHOOSE i \in DOMAIN scores :
         scores[i] = maxScore /\ \A j \in 1..(i - 1) : scores[j] < maxScore

\* the result object of infer: confidence is Math.min((maxScore / 10) * 100, 100)
usageResult(scores, maxScore) ==
  [usage |-> UsageOrder[bestOf(scores, maxScore)], confidence |-> Min(maxScore * 10, 100)]

inferFrom(scores) == usageResult(scores, maxOf(scores))

\* UsageInferrer.infer
infer(device) == inferFrom(usageScores(device))

----------------------------------------------------------------------------
(* DataAggregator (src/unnamed/part_008)                                   *)

\* enrichDevice, first step: a resolved manufacturer is adopted
setManufacturer(d, manufacturer) ==
  IF manufacturer # NULL THEN [d EXCEPT !.manufacturer = manufacturer] ELSE d

withManufacturer(d) ==
  IF d.mac # NULL /\ d.manufacturer = NULL THEN setManufacturer(d, resolve(d.mac)) ELSE d

\* enrichDevice, second step: a detected OS is adopted with its version
setOs(d, osInfo) ==
  IF osInfo.os # NULL THEN [d EXCEPT !.os = osInfo.os, !.osVersion = osInfo.osVersion] ELSE d

withOs(d) == IF d.os = NULL THEN setOs(d, detect(d)) ELSE d

\* enrichDevice, third step: an inferred usage is adopted above the threshold
setUsage(d, usageInfo) ==
  IF usageInfo.usage # NULL /\ usageInfo.confidence > UsageThreshold
    THEN [d EXCEPT !.usage = usageInfo.usage] ELSE d

withUsage(d) == IF d.usage = NULL THEN setUsage(d, infer(d)) ELSE d

\* DataAggregator.enrichDevice
enrichDevice(d) == updateConfidence(withUsage(withOs(withManufacturer(d))))

\* a Map: a function whose domain is the set of keys present
EmptyMap == <<>>

MapSet(m, k, v) == [x \in (DOMAIN m) \cup {k} |-> IF x = k THEN v ELSE m[x]]

NoKey == <<"none", "">>

\* DataAggregator._getDeviceKey
getDeviceKey(data) ==
  IF data.mac # NULL THEN <<"mac", normalizeMac(data.mac)>>
  ELSE IF Or(data.ipv4, data.ip) # NULL THEN <<"ipv4", Or(data.ipv4, data.ip)>>
  ELSE IF Len(data.ipv6) > 0 THEN <<"ipv6", data.ipv6[1]>>
  ELSE NoKey

\* DataAggregator._findExistingDevice: the key of the record found, or NoKey
findExistingDevice(st, data) ==
  LET macKey == <<"mac", normalizeMac(data.mac)>>
      ipv4   == Or(data.ipv4, data.ip)
      hits   == SelectSeq(data.ipv6,
                  LAMBDA a : a \in DOMAIN st.ipv6Index
                             /\ st.ipv6Index[a] \in DOMAIN st.devices)
  IN  IF data.mac # NULL /\ macKey \in DOMAIN st.devices THEN macKey
      ELSE IF /\ ipv4 # NULL
              /\ ipv4 \in DOMAIN st.ipv4Index
              /\ st.ipv4Index[ipv4] \in DOMAIN st.devices
        THEN st.ipv4Index[ipv4]
      ELSE IF hits # <<>> THEN st.ipv6Index[Head(hits)]
      ELSE NoKey

RECURSIVE IndexAll(_, _, _)
IndexAll(index, ipv6, key) ==
  IF ipv6 = <<>> THEN index
  ELSE IndexAll(MapSet(index, Head(ipv6).address, key), Tail(ipv6), key)

\* DataAggregator._updateIndexes
updateIndexes(st, key, device) ==
  [st EXCEPT
     !.ipv4Index = IF Or(device.ipv4, device.ip) # NULL
                     THEN MapSet(@, Or(device.ipv4, device.ip), key) ELSE @,
     !.ipv6Index = IndexAll(@, device.ipv6, key)]

\* the record is stored under key, indexed and enriched
store(st, key, device) ==
  [updateIndexes(st, key, device) EXCEPT !.devices = MapSet(@, key, enrichDevice(device))]

\* existing.device.merge(deviceData), _updateIndexes, enrichDevice
mergeInto(st, key, data, t) == store(st, key, Merge(st.devices[key], data, t))

\* addDevice once the lookup has answered found
addAtUnkeyed(st, found, key, data, t) ==
  IF found # NoKey THEN mergeInto(st, found, data, t)
  ELSE IF key \in DOMAIN st.devices THEN mergeInto(st, key, data, t)
  ELSE store(st, key, NewDevice(data, t))

addAt(st, found, key, data, t) ==
  IF found # NoKey THEN mergeInto(st, found, data, t)
  ELSE IF key = NoKey THEN st
  ELSE IF key \in DOMAIN st.devices THEN mergeInto(st, key, data, t)
  ELSE store(st, key, NewDevice(data, t))

\* DataAggregator.addDevice at time t
addDevice(st, data, t) ==
  addAt(st, findExistingDevice(st, data), getDeviceKey(data), data, t)

\* updateDevice once the lookup has answered found
updateAt(st, found, data, t) ==
  IF found # NoKey THEN mergeInto(st, found, data, t) ELSE addDevice(st, data, t)

\* DataAggregator.updateDevice at time t
updateDevice(st, data, t) == updateAt(st, findExistingDevice(st, data), data, t)

\* DataAggregator.getDeviceByMAC
getDeviceByMAC(st, mac) ==
  IF <<"mac", normalizeMac(mac)>> \in DOMAIN st.devices
    THEN st.devices[<<"mac", normalizeMac(mac)>>] ELSE NULL

\* the key of the record an observation lands in
landingKey(st, data) == IF findExistingDevice(st, data) # NoKey
                          THEN findExistingDevice(st, data) ELSE getDeviceKey(data)

----------------------------------------------------------------------------
(* Observations ingested by the aggregator                                  *)

BlankObs ==
  [ ip |-> NULL, ipv4 |-> NULL, ipv6 |-> <<>>, mac |-> NULL, hostname |-> NULL,
    manufacturer |-> NULL, os |-> NULL, osVersion |-> NULL, model |-> NULL,
    usage |-> NULL, ports |-> <<>>, services |-> <<>>, source |-> NULL,
    sources |-> <<>>, lastSeen |-> 0, firstSeen |-> 0, confidence |-> 0,
    workgroup |-> NULL, fqdn |-> NULL, discoveredVia |-> <<>> ]

\* the hosts on the link: each has one MAC, one IPv4 and one IPv6 address
Host == [mac |-> "AA:BB:CC:DD:EE:01", ipv4 |-> "192.168.1.10", ipv6 |-> "fe80::1"]

Neighbour == [mac |-> "00:1A:11:AA:BB:CC", ipv4 |-> "192.168.1.20", ipv6 |-> "2001:db8::2"]

Hosts == {Host, Neighbour}

\* an observation carrying the given identifiers, as the ARP and NDP
\* drivers report them
Sighting(m, a, x) ==
  [BlankObs EXCEPT !.mac = m, !.ipv4 = a, !.ipv6 = x,
                   !.discoveredVia = IF x # <<>> THEN <<"ndp">> ELSE <<"arp">>]

\* every subset of Host's identifiers, and Neighbour seen with all of its own
IdentObs ==
  { Sighting(m, a, x) :
      <<m, a, x>> \in {NULL, Host.mac} \X {NULL, Host.ipv4} \X {<<>>, <<Host.ipv6>>} }
  \cup { Sighting(Neighbour.mac, Neighbour.ipv4, <<Neighbour.ipv6>>) }

\* the port SsdpScanner adds to every device it reports
SSDP_PORT == 1900

\* observations carrying attributes
AttrObs ==
  { [BlankObs EXCEPT !.ipv4 = "192.168.1.10", !.hostname = "router", !.sources = <<"mdns">>],
    [BlankObs EXCEPT !.ipv4 = "192.168.1.10", !.hostname = "gateway", !.sources = <<"dhcp">>],
    [BlankObs EXCEPT !.mac = "aa:bb:cc:dd:ee:01", !.ipv4 = "192.168.1.10"],
    [BlankObs EXCEPT !.ipv6 = <<"fe80::1%eth0">>, !.ports = <<SSDP_PORT>>, !.source = "ssdp",
                     !.discoveredVia = <<"ssdp">>],
    \* MdnsScanner._processDiscoveredServices for an _ipp._tcp service: the
    \* driver names the usage itself (_inferUsageFromServices)
    [BlankObs EXCEPT !.ip = "192.168.1.20", !.ipv4 = "192.168.1.20", !.hostname = "host-a",
                     !.ports = <<631>>, !.lastSeen = 5, !.usage = "Printer",
                     !.services = <<[port |-> 631, protocol |-> "tcp", service |-> "ipp",
                                     version |-> "_ipp._tcp"]>>,
                     !.source = "mdns", !.discoveredVia = <<"mdns">>],
    [BlankObs EXCEPT !.ip = "192.168.1.10", !.ipv4 = "192.168.1.10", !.os = "Linux",
                     !.osVersion = "22.04", !.ports = <<22>>, !.lastSeen = 5,
                     !.services = <<[port |-> 22, protocol |-> "tcp", service |-> "ssh",
                                     version |-> "OpenSSH 8.9"]>>,
                     !.sources = <<"nmap">>] }

Observations == IdentObs \cup AttrObs

\* the identifiers an observation carries, MAC in canonical form
ObsMac(o) == IF o.mac # NULL THEN normalizeMac(o.mac) ELSE NULL

ObsIpv4(o) == Or(o.ipv4, o.ip)

\* the observation says nothing that contradicts host h
Concerns(o, h) ==
  /\ ObsMac(o) \in {NULL, h.mac}
  /\ ObsIpv4(o) \in {NULL, h.ipv4}
  /\ Range(o.ipv6) \subseteq {h.ipv6}
  /\ getDeviceKey(o) # NoKey

----------------------------------------------------------------------------
(* ScanOrchestrator (src/src/scanners/ScanOrchestrator.js): merging of     *)
(* plain device objects.  An absent property is NULL, 0 or <<>>; an IPv6   *)
(* entry is its address.                                                   *)

\* ScanOrchestrator._mergeIPv6Arrays
RECURSIVE mergeIPv6Arrays(_, _)
mergeIPv6Arrays(existing, update) ==
  IF existing = <<>> THEN update
  ELSE IF update = <<>> THEN existing
  ELSE mergeIPv6Arrays(IF Head(update) \in Range(existing) THEN existing
                       ELSE Append(existing, Head(update)),
                       Tail(update))

\* existing.sources || [existing.source], with the .filter(Boolean) applied
sourcesOf(device) ==
  IF device.sources # <<>> THEN device.sources
  ELSE IF device.source # NULL THEN <<device.source>>
  ELSE <<>>

\* ScanOrchestrator._mergeDevice
mergeDevice(existing, update) ==
  [ ip            |-> Or(update.ip, existing.ip),
    ipv4          |-> Or(update.ipv4, Or(update.ip, existing.ipv4)),
    ipv6          |-> mergeIPv6Arrays(existing.ipv6, update.ipv6),
    mac           |-> Or(update.mac, existing.mac),
    hostname      |-> Or(update.hostname, existing.hostname),
    manufacturer  |-> Or(update.manufacturer, existing.manufacturer),
    os            |-> Or(update.os, existing.os),
    osVersion     |-> Or(update.osVersion, existing.osVersion),
    model         |-> Or(update.model, existing.model),
    workgroup     |-> Or(update.workgroup, existing.workgroup),
    fqdn          |-> Or(update.fqdn, existing.fqdn),
    ports         |-> Dedup(existing.ports \o update.ports),
    services      |-> existing.services \o update.services,
    sources       |-> Dedup(sourcesOf(existing) \o sourcesOf(update)),
    discoveredVia |-> Dedup(existing.discoveredVia \o update.discoveredVia),
    lastSeen      |-> IF update.lastSeen # 0 THEN update.lastSeen ELSE existing.lastSeen,
    \* the properties only the spread  {...existing, ...update}  copies
    usage         |-> Or(update.usage, existing.usage),
    source        |-> Or(update.source, existing.source),
    firstSeen     |-> IF update.firstSeen # 0 THEN update.firstSeen ELSE existing.firstSeen,
    confidence    |-> IF update.confidence # 0 THEN update.confidence
                      ELSE existing.confidence ]

\* the key of _mergeResults:  mac || ip || ipv4 || ipv6[0]
rawKey(device) ==
  Or(device.mac, Or(device.ip, Or(device.ipv4,
     IF device.ipv6 # <<>> THEN device.ipv6[1] ELSE NULL)))

\* the body of the loop of _mergeResults for a device with a key
putDevice(devs, key, device) ==
  MapSet(devs, key, IF key \in DOMAIN devs THEN mergeDevice(devs[key], device) ELSE device)

\* ScanOrchestrator._mergeResults.  It broadcasts DEVICE_DISCOVERED or
\* DEVICE_UPDATED with the device itself as payload; when the DataAggregator
\* is loaded its listener reads payload.device, which is undefined, and the
\* TypeError of addDevice(undefined) leaves the loop through emit().
RECURSIVE mergeResults(_, _, _)
mergeResults(devs, results, loaded) ==
  IF results = <<>> THEN [devices |-> devs, threw |-> FALSE]
  ELSE IF rawKey(Head(results)) = NULL THEN mergeResults(devs, Tail(results), loaded)
  ELSE IF loaded
    THEN [devices |-> putDevice(devs, rawKey(Head(results)), Head(results)), threw |-> TRUE]
  ELSE mergeResults(putDevice(devs, rawKey(Head(results)), Head(results)),
                    Tail(results), loaded)

----------------------------------------------------------------------------
(* ScanOrchestrator: configuration and drivers                             *)

ScanLevels == {"quick", "standard", "thorough"}

\* SCAN_LEVEL_CONFIG
levelConfig(scanLevel) ==
  CASE scanLevel = "quick" ->
         [enableMdns |-> TRUE, enableSsdp |-> TRUE, enableNmap |-> FALSE,
          enableTcpdump |-> FALSE, timeout |-> 5]
    [] scanLevel = "standard" ->
         [enableMdns |-> TRUE, enableSsdp |-> TRUE, enableNmap |-> TRUE,
          enableTcpdump |-> TRUE, timeout |-> 30]
    [] OTHER ->
         [enableMdns |-> TRUE, enableSsdp |-> TRUE, enableNmap |-> TRUE,
          enableTcpdump |-> TRUE, timeout |-> 90]

\* the properties of this.scanners, in insertion order
ScannerOrder ==
  <<"arp", "ndp", "tcpdump", "nmap", "netbios", "netbiosBrowser", "mdns", "ssdp">>

\* the scanners that extend BaseScanner; "netbios" is a NetbiosResolver,
\* which has neither isRunning() nor getResults()
Drivers == Range(ScannerOrder) \ {"netbios"}

\* a driver not yet constructed
NoScanner == [created |-> FALSE, running |-> FALSE, pending |-> FALSE, results |-> <<>>]

\* what each driver finds on the link
Sighted(d) ==
  CASE d = "arp" ->
         <<[BlankObs EXCEPT !.ip = Host.ipv4, !.ipv4 = Host.ipv4, !.mac = Host.mac,
                            !.lastSeen = 1, !.source = "arp", !.discoveredVia = <<"arp">>]>>
    [] d = "ndp" ->
         <<[BlankObs EXCEPT !.mac = Host.mac, !.ipv6 = <<Host.ipv6>>, !.lastSeen = 1,
                            !.source = "ndp", !.discoveredVia = <<"ndp">>]>>
    [] d = "tcpdump" ->
         <<[BlankObs EXCEPT !.ip = Neighbour.ipv4, !.ipv4 = Neighbour.ipv4,
                            !.mac = Neighbour.mac, !.lastSeen = 1, !.source = "tcpdump",
                            !.discoveredVia = <<"passive-capture">>],
           [BlankObs EXCEPT !.ip = Host.ipv4, !.ipv4 = Host.ipv4, !.mac = Host.mac,
                            !.lastSeen = 1, !.source = "tcpdump",
                            !.discoveredVia = <<"passive-capture">>]>>
    [] d = "mdns" ->
         <<[BlankObs EXCEPT !.ip = Host.ipv4, !.ipv4 = Host.ipv4, !.hostname = "router",
                            !.lastSeen = 1, !.source = "mdns", !.discoveredVia = <<"mdns">>]>>
    [] d = "ssdp" ->
         <<[BlankObs EXCEPT !.ip = Neighbour.ipv4, !.ipv4 = Neighbour.ipv4, !.lastSeen = 1,
                            !.source = "ssdp", !.discoveredVia = <<"ssdp">>]>>
    [] d = "nmap" ->
         <<[BlankObs EXCEPT !.ip = Host.ipv4, !.ipv4 = Host.ipv4, !.os = "Linux",
                            !.osVersion = "22.04", !.ports = <<22>>, !.lastSeen = 1,
                            !.services = <<[port |-> 22, protocol |-> "tcp",
                                            service |-> "ssh", version |-> "OpenSSH 8.9"]>>,
                            !.source = "nmap-detailed", !.discoveredVia = <<"nmap">>]>>
    [] OTHER ->
         <<[BlankObs EXCEPT !.ip = Neighbour.ipv4, !.ipv4 = Neighbour.ipv4,
                            !.hostname = "host-a", !.workgroup = "WORKGROUP",
                            !.os = "Windows", !.lastSeen = 1, !.source = "netbios-browser",
                            !.discoveredVia = <<"netbios-browser">>]>>

----------------------------------------------------------------------------
(* ScanOrchestrator: the phase pipeline of start(), and stop().  The       *)
(* orchestrator's fields are gathered in a record so that the code that    *)
(* runs between two suspensions of start() is one function of it.          *)

Orch ==
  [ running |-> running, currentPhase |-> currentPhase,
    monitorInterval |-> monitorInterval, scanners |-> scanners, netbios |-> netbios,
    devices |-> orchDevices, pc |-> pc, completed |-> completed, stopLog |-> stopLog,
    scanErrors |-> scanErrors, expired |-> expired, netbiosResults |-> netbiosResults ]

\* new XScanner() followed by start() up to its first suspension: _onStart
startDriver(s, d) ==
  [s EXCEPT !.scanners[d] =
     [created |-> TRUE, running |-> TRUE, pending |-> TRUE, results |-> <<>>]]

\* TcpdumpScanner.start returns once the process is spawned
startTcpdump(s) ==
  [s EXCEPT !.scanners["tcpdump"] =
     [created |-> TRUE, running |-> TRUE, pending |-> FALSE, results |-> <<>>]]

\* the drivers awaited where start() is suspended
Awaited(at) ==
  CASE at = "phase0" -> {"mdns", "ssdp"}
    [] at = "phase1" -> {"arp", "ndp"}
    [] at = "netbiosBrowser" -> {"netbiosBrowser"}
    [] at = "phase2" -> {"nmap"}
    [] OTHER -> {}

runningDrivers(s) == {d \in Drivers : s.scanners[d].running}

\* the device map reflects the observation: the record under the
\* observation's key names the way the observation was made
reflected(devs, o) ==
  \/ rawKey(o) = NULL
  \/ /\ rawKey(o) \in DOMAIN devs
     /\ Range(o.discoveredVia) \subseteq Range(devs[rawKey(o)].discoveredVia)

\* the observations the drivers hold that the device map does not reflect
unmerged(s) ==
  UNION { { <<d, i>> : i \in { j \in DOMAIN s.scanners[d].results :
                                ~reflected(s.devices, s.scanners[d].results[j]) } } :
          d \in Drivers }

\* the SCAN_COMPLETED event: getDevices(), and the drivers as they are then
completion(s, by) ==
  [by |-> by, devices |-> s.devices, stillRunning |-> runningDrivers(s),
   unmerged |-> unmerged(s)]

\* start(), its last lines: _runPhase3 in watch mode, else the completion
finish(s) ==
  IF options.watch
    THEN [s EXCEPT !.currentPhase = "passive-monitoring", !.monitorInterval = TRUE,
                   !.pc = "returned"]
    ELSE [s EXCEPT !.running = FALSE, !.pc = "returned",
                   !.completed = Append(@, completion([s EXCEPT !.running = FALSE], "start"))]

enterPhase2InPassiveMode(s) ==
  IF levelConfig(options.scanLevel).enableNmap
    THEN startDriver([s EXCEPT !.currentPhase = "deep-scan", !.pc = "phase2"], "nmap")
    ELSE finish(s)

\* ScanOrchestrator._runPhase2, up to the suspension on nmap
enterPhase2(s) ==
  IF levelConfig(options.scanLevel).enableNmap /\ ~options.passive
    THEN startDriver([s EXCEPT !.currentPhase = "deep-scan", !.pc = "phase2"], "nmap")
    ELSE finish(s)

\* _runNetbiosResolution: the IPs of the devices that have no hostname
ipsToResolve(devs) ==
  {Or(devs[k].ip, devs[k].ipv4) : k \in {x \in DOMAIN devs :
      Or(devs[x].ip, devs[x].ipv4) # NULL /\ devs[x].hostname = NULL}}

\* _runNetbiosResolution, up to the suspension on the resolver
enterNetbiosResolution(s) ==
  IF ipsToResolve(s.devices) = {} THEN enterPhase2(s)
  ELSE [s EXCEPT !.netbios = TRUE, !.pc = "netbiosResolution"]

\* _runNetbiosBrowserScan, up to the suspension on the browser
enterNetbiosBrowser(s) == startDriver([s EXCEPT !.pc = "netbiosBrowser"], "netbiosBrowser")

\* the ARP and NDP scans of _runPhase1
startNeighbourScans(s) ==
  IF options.ipv6 THEN startDriver(startDriver(s, "arp"), "ndp") ELSE startDriver(s, "arp")

\* ScanOrchestrator._runPhase1, up to the suspension on ARP and NDP
enterPhase1(s) ==
  startNeighbourScans(
    IF levelConfig(options.scanLevel).enableTcpdump /\ ~options.passive
      THEN startTcpdump([s EXCEPT !.currentPhase = "fast-discovery", !.pc = "phase1"])
      ELSE [s EXCEPT !.currentPhase = "fast-discovery", !.pc = "phase1"])

\* the mDNS scan of _runPhase0
startMdns(s) ==
  IF levelConfig(options.scanLevel).enableMdns THEN startDriver(s, "mdns") ELSE s

\* the SSDP scan of _runPhase0
startSsdp(s) ==
  IF levelConfig(options.scanLevel).enableSsdp THEN startDriver(s, "ssdp") ELSE s

\* ScanOrchestrator._runPhase0, up to the suspension on mDNS and SSDP
enterPhase0(s) ==
  startSsdp(startMdns([s EXCEPT !.currentPhase = "passive-discovery", !.pc = "phase0"]))

\* start() resumes where it was suspended
resume(s) ==
  CASE s.pc = "phase0" -> enterPhase1(s)
    [] s.pc = "phase1" -> enterNetbiosBrowser(s)
    [] s.pc = "netbiosBrowser" -> enterNetbiosResolution(s)
    [] s.pc = "phase2" -> finish(s)
    [] OTHER -> s

\* Promise.allSettled: start() resumes when every awaited driver has settled
advance(s) ==
  IF \E d \in Awaited(s.pc) : s.scanners[d].pending THEN s ELSE resume(s)

\* scanner.stop() as stop() calls it: NetbiosBrowserScanner inherits
\* BaseScanner.stop, which throws, and the rejection is swallowed
stopDriver(d, sc) ==
  IF d = "netbiosBrowser" THEN sc ELSE [sc EXCEPT !.running = FALSE]

\* scanner.stop() called on a driver: the driver afterwards, the events the
\* call emits on the event bus, and whether its promise rejects.
\* TcpdumpScanner.stop announces the stop unless process.killed is set, which
\* kill() sets only on a process that was spawned; its _onComplete emits
\* the completion.  The other drivers emit nothing
stopCall(d, sc) ==
  [scanner |-> stopDriver(d, sc),
   events |-> IF d # "tcpdump" THEN <<>>
              ELSE (IF sc.running \/ env.fault = "tcpdump" THEN <<"tcpdump:stop">> ELSE <<>>)
                   \o (IF sc.running THEN <<"complete">> ELSE <<>>),
   rejects |-> d = "netbiosBrowser"]

\* ScanOrchestrator._mergeAllResults from the i-th scanner on: the
\* NetbiosResolver has no getResults(), so the call throws when it is set
RECURSIVE mergeAllResults(_, _, _)
mergeAllResults(s, devs, i) ==
  IF i > Len(ScannerOrder) THEN [devices |-> devs, threw |-> FALSE]
  ELSE IF ScannerOrder[i] = "netbios"
    THEN (IF s.netbios THEN [devices |-> devs, threw |-> TRUE]
          ELSE mergeAllResults(s, devs, i + 1))
  ELSE IF ~s.scanners[ScannerOrder[i]].created THEN mergeAllResults(s, devs, i + 1)
  ELSE IF mergeResults(devs, s.scanners[ScannerOrder[i]].results, env.loaded).threw
    THEN mergeResults(devs, s.scanners[ScannerOrder[i]].results, env.loaded)
  ELSE mergeAllResults(
         s, mergeResults(devs, s.scanners[ScannerOrder[i]].results, env.loaded).devices,
         i + 1)

\* stop(), first half: the flags, the interval, the drivers
haltDrivers(s) ==
  [s EXCEPT !.running = FALSE, !.monitorInterval = FALSE,
            !.scanners = [d \in Drivers |->
                            IF @[d].running THEN stopDriver(d, @[d]) ELSE @[d]]]

\* stop(), second half: the final merge and, unless it threw, the event
concludeStop(s, merged) ==
  IF merged.threw
    THEN [s EXCEPT !.devices = merged.devices,
                   !.stopLog = Append(@, [outcome |-> "threw",
                                          stillRunning |-> runningDrivers(s)])]
    ELSE [s EXCEPT !.devices = merged.devices,
                   !.completed =
                     Append(@, completion([s EXCEPT !.devices = merged.devices], "stop")),
                   !.stopLog = Append(@, [outcome |-> "returned",
                                          stillRunning |-> runningDrivers(s)])]

finalMerge(s) == concludeStop(s, mergeAllResults(s, s.devices, 1))

\* ScanOrchestrator.stop
stop(s) == finalMerge(haltDrivers(s))

\* an error nobody catches reaches the process: the handler cli.js installs
\* runs the cleanup (stop() when the orchestrator is running) and exits,
\* without it the process ends at once
cleanup(s) == IF env.cli /\ s.running THEN stop(s) ELSE s

\* a driver's start() promise fulfils: _onComplete, then the orchestrator
\* merges the driver's results inside its try block
settled(s, d) ==
  [s EXCEPT !.scanners[d] = [@ EXCEPT !.running = FALSE, !.pending = FALSE,
                                      !.results = SubSeq(Sighted(d), 1, 1)],
            !.devices = mergeResults(@, SubSeq(Sighted(d), 1, 1), env.loaded).devices]

\* the discovery timer of the mDNS or SSDP driver fires with n observations
\* gathered, and the promise start() awaits stays unresolved
timedOutUnresolved(s, d, n) ==
  [s EXCEPT !.expired = @ \cup {d}]

\* the discovery timer of the mDNS or SSDP driver fires with n observations
\* gathered: the callback kills the child process (closes the socket) and
\* resolves, start() goes on to _onComplete and the orchestrator merges
timedOut(s, d, n) ==
  [s EXCEPT !.scanners[d] = [@ EXCEPT !.running = FALSE, !.pending = FALSE,
                                      !.results = SubSeq(Sighted(d), 1, n)],
            !.devices = mergeResults(@, SubSeq(Sighted(d), 1, n), env.loaded).devices,
            !.expired = @ \cup {d}]

\* a driver's start() fails.  BaseScanner._onError emits 'error' on the
\* scanner, which has no listener, so the emit throws and start() rejects
\* with running still set; NetbiosBrowserScanner catches its own error
failed(s, d) ==
  [s EXCEPT !.scanners[d] = [@ EXCEPT !.pending = FALSE,
                                      !.running = IF d = "netbiosBrowser" THEN FALSE ELSE @]]

\* what the NetBIOS resolver answers for an address
NetbiosInfo == [hostname |-> "host-a", workgroup |-> "WORKGROUP", source |-> "nmblookup"]

\* _runNetbiosResolution, the loop over the answers: the record is looked
\* up under the IP address
named(existing, info) ==
  [existing EXCEPT !.hostname = info.hostname,
                   !.workgroup = Or(info.workgroup, @),
                   !.sources = Dedup((IF @ # <<>> THEN @ ELSE <<existing.source>>)
                                     \o <<info.source>>)]

resolved(s, results) ==
  [s EXCEPT !.netbiosResults = results,
            !.devices = [key \in DOMAIN s.devices |->
                           IF key \in results THEN named(s.devices[key], NetbiosInfo)
                           ELSE s.devices[key]]]

----------------------------------------------------------------------------
(* The orchestrator as a state machine                                      *)

Install(s) ==
  /\ running' = s.running
  /\ currentPhase' = s.currentPhase
  /\ monitorInterval' = s.monitorInterval
  /\ scanners' = s.scanners
  /\ netbios' = s.netbios
  /\ orchDevices' = s.devices
  /\ pc' = s.pc
  /\ completed' = s.completed
  /\ stopLog' = s.stopLog
  /\ scanErrors' = s.scanErrors
  /\ expired' = s.expired
  /\ netbiosResults' = s.netbiosResults
  /\ UNCHANGED <<options, env, validation, aggVars, mergeVars, utilVars>>

\* the constructor of ScanOrchestrator: the fast option selects the quick level
constructor(given) == [given EXCEPT !.scanLevel = IF given.fast THEN "quick" ELSE @]

Options ==
  { constructor(given) :
      given \in [scanLevel : ScanLevels, fast : BOOLEAN, watch : BOOLEAN,
                 passive : BOOLEAN, ipv6 : BOOLEAN] }

\* iface: an interface is given or detected;  fault: the driver whose
\* start fails, for tcpdump because the binary is missing;  loaded: the
\* DataAggregator module is loaded and listens on the event bus;
\* cli: the process handlers of cli.js are installed;  priv: the process
\* has root privileges;  nmap: the nmap binary is installed
Environments ==
  [iface : BOOLEAN, fault : Drivers \cup {"none"}, loaded : BOOLEAN, cli : BOOLEAN,
   priv : BOOLEAN, nmap : BOOLEAN]

\* initialize() without its privilege check
initializeUnprivileged(o, e) ==
  [ready |-> ~(~e.nmap /\ o.scanLevel # "quick"),
   errors |-> IF ~e.nmap /\ o.scanLevel # "quick" THEN <<"nmap">> ELSE <<>>,
   warnings |-> IF e.fault = "tcpdump" /\ ~o.passive THEN <<"tcpdump">> ELSE <<>>]

\* ScanOrchestrator.initialize: the validation result (the warning about
\* the ARP tools is left out, the model has no ARP tools to miss)
initialize(o, e) ==
  IF ~e.priv
    THEN [ready |-> FALSE, errors |-> <<"privileges">>, warnings |-> <<>>]
    ELSE [ready |-> ~(~e.nmap /\ o.scanLevel # "quick"),
          errors |-> IF ~e.nmap /\ o.scanLevel # "quick" THEN <<"nmap">> ELSE <<>>,
          warnings |-> IF e.fault = "tcpdump" /\ ~o.passive THEN <<"tcpdump">> ELSE <<>>]

OrchIdle ==
  /\ running = FALSE
  /\ currentPhase = NULL
  /\ monitorInterval = FALSE
  /\ scanners = [d \in Drivers |-> NoScanner]
  /\ netbios = FALSE
  /\ orchDevices = EmptyMap
  /\ pc = "idle"
  /\ completed = <<>>
  /\ stopLog = <<>>
  /\ validation = "none"
  /\ scanErrors = <<>>
  /\ expired = {}
  /\ uncaught = "none"
  /\ netbiosResults = {}

\* runHeadless and the effect of App call initialize() first: checkPrivileges
\* of cli.js, process.exit(1) of runHeadless and setError of App all end the
\* run without a call of start() when the validation is not ready
Initialize ==
  /\ pc = "idle"
  /\ uncaught = "none"
  /\ validation = "none"
  /\ validation' = IF initialize(options, env).ready THEN "ready" ELSE "failed"
  /\ UNCHANGED <<options, env, running, currentPhase, monitorInterval, scanners, netbios,
                 orchDevices, pc, completed, stopLog, scanErrors, expired, uncaught,
                 netbiosResults, aggVars, mergeVars, utilVars>>

\* ScanOrchestrator.start, up to its first suspension, called once the
\* validation is ready
Start ==
  /\ pc = "idle"
  /\ uncaught = "none"
  /\ validation = "ready"
  /\ IF env.iface
       THEN Install(enterPhase0([Orch EXCEPT !.running = TRUE]))
       ELSE Install([Orch EXCEPT !.running = FALSE, !.pc = "threw",
                                 !.scanErrors = Append(@, "interface")])
  /\ UNCHANGED uncaught

\* an awaited driver finishes its scan
DriverCompletes(d) ==
  /\ uncaught = "none"
  /\ scanners[d].pending
  /\ env.fault # d
  /\ Install(advance(settled(Orch, d)))
  /\ UNCHANGED uncaught

\* an awaited driver fails
DriverFails(d) ==
  /\ uncaught = "none"
  /\ scanners[d].pending
  /\ env.fault = d
  /\ Install(advance(failed(Orch, d)))
  /\ UNCHANGED uncaught

\* the deadline the orchestrator gave the mDNS or SSDP driver elapses
DeadlineElapses(d) ==
  /\ uncaught = "none"
  /\ d \in {"mdns", "ssdp"}
  /\ scanners[d].pending
  /\ env.fault # d
  /\ \E n \in 0..1 : Install(advance(timedOut(Orch, d, n)))
  /\ UNCHANGED uncaught

\* the running tcpdump process prints a packet: _processOutput, _addDevice
Capture ==
  /\ uncaught = "none"
  /\ scanners["tcpdump"].running
  /\ env.fault # "tcpdump"
  /\ Len(scanners["tcpdump"].results) < MaxSightings
  /\ Len(scanners["tcpdump"].results) < Len(Sighted("tcpdump"))
  /\ Install([Orch EXCEPT !.scanners["tcpdump"].results =
                Append(@, Sighted("tcpdump")[Len(@) + 1])])
  /\ UNCHANGED uncaught

\* the tcpdump binary is missing: the child process emits 'error', the
\* listener calls _onError, whose emit('error') throws inside the listener
TcpdumpSpawnError ==
  /\ uncaught = "none"
  /\ scanners["tcpdump"].running
  /\ env.fault = "tcpdump"
  /\ Install(cleanup(Orch))
  /\ uncaught' = "driver"

\* the NetBIOS resolver returns
NetbiosResolved(results) ==
  /\ uncaught = "none"
  /\ pc = "netbiosResolution"
  /\ results \subseteq ipsToResolve(orchDevices)
  /\ Install(enterPhase2(resolved(Orch, results)))
  /\ UNCHANGED uncaught

\* the interval of _runPhase3 fires; an exception of _mergeResults is
\* thrown from a timer callback
MonitorTick ==
  /\ uncaught = "none"
  /\ monitorInterval
  /\ scanners["tcpdump"].created
  /\ IF mergeResults(orchDevices, scanners["tcpdump"].results, env.loaded).threw
       THEN /\ Install(cleanup([Orch EXCEPT !.devices =
                 mergeResults(@, scanners["tcpdump"].results, env.loaded).devices]))
            /\ uncaught' = "merge"
       ELSE /\ Install([Orch EXCEPT !.devices =
                 mergeResults(@, scanners["tcpdump"].results, env.loaded).devices])
            /\ UNCHANGED uncaught

\* ScanOrchestrator.stop, called on a scan that was started
Stop ==
  /\ uncaught = "none"
  /\ pc # "idle"
  /\ Len(stopLog) < MaxStops
  /\ Install(stop(Orch))
  /\ UNCHANGED uncaught

OrchNext ==
  \/ Initialize
  \/ Start
  \/ \E d \in Drivers : DriverCompletes(d)
  \/ \E d \in Drivers : DriverFails(d)
  \/ \E d \in Drivers : DeadlineElapses(d)
  \/ Capture
  \/ TcpdumpSpawnError
  \/ \E results \in SUBSET {Host.ipv4, Neighbour.ipv4} : NetbiosResolved(results)
  \/ MonitorTick
  \/ Stop

----------------------------------------------------------------------------
(* The aggregator as a state machine                                        *)

Store == [devices |-> devices, ipv4Index |-> ipv4Index, ipv6Index |-> ipv6Index]

\* the aggregator after construction
EmptyStore == [devices |-> EmptyMap, ipv4Index |-> EmptyMap, ipv6Index |-> EmptyMap]

NoCall == [op |-> "none", obs |-> BlankObs, key |-> NoKey, created |-> FALSE]

\* the record the observation is merged into is known by IPv4 only
\* (no MAC, no IPv6) and the observation brings a MAC
LinksMac(st, o) ==
  LET k == findExistingDevice(st, o)
  IN  /\ k # NoKey
      /\ o.mac # NULL
      /\ st.devices[k].mac = NULL
      /\ st.devices[k].ipv4 # NULL
      /\ st.devices[k].ipv6 = <<>>

Record(op, o, st2) ==
  /\ devices' = st2.devices
  /\ ipv4Index' = st2.ipv4Index
  /\ ipv6Index' = st2.ipv6Index
  /\ now' = now + 1
  /\ ingested' = Append(ingested, o)
  /\ last' = [op |-> op, obs |-> o, key |-> landingKey(Store, o),
              created |-> DOMAIN st2.devices # DOMAIN devices]
  /\ linked' = IF LinksMac(Store, o)
                 THEN linked \cup {<<normalizeMac(o.mac), findExistingDevice(Store, o)>>}
                 ELSE linked
  /\ UNCHANGED <<mergeVars, orchVars, utilVars>>

AggIdle ==
  /\ devices = EmptyMap
  /\ ipv4Index = EmptyMap
  /\ ipv6Index = EmptyMap
  /\ now = 10
  /\ ingested = <<>>
  /\ last = NoCall
  /\ linked = {}

\* a DEVICE_DISCOVERED event delivers the observation to addDevice
AddDevice(o) ==
  /\ Len(ingested) < MaxObs
  /\ Record("add", o, addDevice(Store, o, now))

\* a DEVICE_UPDATED event delivers the observation to updateDevice
UpdateDevice(o) ==
  /\ Len(ingested) < MaxObs
  /\ Record("update", o, updateDevice(Store, o, now))

AggNext ==
  \/ \E o \in Observations : AddDevice(o)
  \/ \E o \in Observations : UpdateDevice(o)

\* Map.prototype.delete
MapDel(m, k) == [x \in (DOMAIN m) \ {k} |-> m[x]]

RECURSIVE UnindexAll(_, _)
UnindexAll(index, ipv6) ==
  IF ipv6 = <<>> THEN index ELSE UnindexAll(MapDel(index, Head(ipv6).address), Tail(ipv6))

\* DataAggregator._removeFromIndexes
removeFromIndexes(st, device) ==
  [st EXCEPT
     !.ipv4Index = IF Or(device.ipv4, device.ip) # NULL
                     THEN MapDel(@, Or(device.ipv4, device.ip)) ELSE @,
     !.ipv6Index = UnindexAll(@, device.ipv6)]

\* _removeFromIndexes(device); this.devices.delete(key)
removeAt(st, key) == [removeFromIndexes(st, st.devices[key]) EXCEPT !.devices = MapDel(@, key)]

\* DataAggregator.removeDevice.  The argument is a device key, <<kind, value>>
\* for the string kind:value, or a MAC address, <<"", address>>; a device key
\* taken as a MAC address names no record
removeDevice(st, key) ==
  IF key \in DOMAIN st.devices THEN removeAt(st, key)
  ELSE IF key[1] = "" /\ <<"mac", normalizeMac(key[2])>> \in DOMAIN st.devices
    THEN removeAt(st, <<"mac", normalizeMac(key[2])>>)
  ELSE st

\* DataAggregator.clear
clear(st) == EmptyStore

\* Host seen at another address: its lease has changed
Readdressed == Sighting(Host.mac, "192.168.1.11", <<>>)

\* what removeDevice is called with
RemovalKeys ==
  {<<"mac", Host.mac>>, <<"ipv4", Host.ipv4>>, <<"ipv6", Host.ipv6>>,
   <<"", "aa:bb:cc:dd:ee:01">>, <<"mac", Neighbour.mac>>}

\* a call that ingests nothing: the store afterwards
Called(op, key, st2) ==
  /\ devices' = st2.devices
  /\ ipv4Index' = st2.ipv4Index
  /\ ipv6Index' = st2.ipv6Index
  /\ last' = [op |-> op, obs |-> BlankObs, key |-> key, created |-> FALSE]
  /\ UNCHANGED <<now, ingested, linked, mergeVars, orchVars, utilVars>>

RemoveDevice(key) ==
  /\ devices # EmptyMap
  /\ Called("remove", key, removeDevice(Store, key))

Clear ==
  /\ devices # EmptyMap
  /\ Called("clear", NoKey, clear(Store))

\* the aggregator under all four calls
StoreNext ==
  \/ \E o \in Observations \cup {Readdressed} : AddDevice(o)
  \/ \E o \in Observations \cup {Readdressed} : UpdateDevice(o)
  \/ \E key \in RemovalKeys : RemoveDevice(key)
  \/ Clear

\* addDevice applied to the observations in order, starting at time t
RECURSIVE Ingest(_, _, _)
Ingest(st, obs, t) ==
  IF obs = <<>> THEN st ELSE Ingest(addDevice(st, Head(obs), t), Tail(obs), t + 1)

----------------------------------------------------------------------------
(* One record under repeated merges: Device.merge on the aggregator's      *)
(* Device and ScanOrchestrator._mergeDevice on the orchestrator's object   *)

\* the observations the orchestrator can key
Keyed == {o \in Observations : rawKey(o) # NULL}

MergeIdle ==
  /\ mDevice = NewDevice(BlankObs, 10)
  /\ mExisting = BlankObs
  /\ mUpdate = BlankObs
  /\ mPrevDevice = NewDevice(BlankObs, 10)
  /\ mPrevExisting = BlankObs
  /\ mOp = "new"
  /\ mNow = 10

\* the first observation of a device: new Device(o), devices.set(key, o)
MergeInit ==
  \E o \in Keyed :
    /\ mDevice = NewDevice(o, 10)
    /\ mExisting = o
    /\ mUpdate = o
    /\ mPrevDevice = NewDevice(o, 10)
    /\ mPrevExisting = o
    /\ mOp = "new"
    /\ mNow = 11

Merged(op, o) ==
  /\ mPrevDevice' = mDevice
  /\ mPrevExisting' = mExisting
  /\ mDevice' = Merge(mDevice, o, mNow)
  /\ mExisting' = mergeDevice(mExisting, o)
  /\ mUpdate' = o
  /\ mOp' = op
  /\ mNow' = mNow + 1
  /\ UNCHANGED <<aggVars, orchVars, utilVars>>

\* a further observation of the device is merged
MergeObservation(o) ==
  /\ mNow < 11 + MaxMerges
  /\ Merged("merge", o)

\* the observation merged last is merged again, as _mergeAllResults does
\* with results that _mergeResults has merged before
RemergeObservation ==
  /\ mNow < 11 + MaxMerges
  /\ Merged("remerge", mUpdate)

MergeNext ==
  \/ \E o \in Keyed : MergeObservation(o)
  \/ RemergeObservation

----------------------------------------------------------------------------
(* EventBus (src/src/utils/OutputFormatter.js): an EventEmitter.  emit()   *)
(* calls the listeners of the event one after the other on the caller's    *)
(* stack, then the wildcard listeners, and returns after the last of them  *)

BusEvents == {"device:discovered", "device:updated"}

Wildcard == "*"

\* the subscribers of the program: the DataAggregator, the App component,
\* and a wildcard listener
BusHandlers == {"aggregator", "app", "logger"}

\* who calls emit() for a device event: BaseScanner._addDevice of a driver,
\* ScanOrchestrator._mergeResults, ScanOrchestrator._runNetbiosResolution
Producers == {"scanner", "orchestrator", "netbios"}

\* the data of the event, of which the model keeps what a listener reads as
\* data.device: the driver passes { scanner, device }, the orchestrator
\* passes the record itself, which has no property of that name
payloadOf(producer) ==
  [producer |-> producer, device |-> IF producer = "scanner" THEN "192.168.1.10" ELSE NULL]

NotEmitting == [event |-> NULL, queue |-> <<>>, payload |-> [producer |-> NULL, device |-> NULL]]

\* the listener throws: the DataAggregator calls addDevice(data.device) or
\* updateDevice(data.device), whose _findExistingDevice reads deviceData.mac
throws(handler, data) == handler = "aggregator" /\ data.device = NULL

BusIdle ==
  /\ listeners = [e \in BusEvents \cup {Wildcard} |-> <<>>]
  /\ emitting = NotEmitting
  /\ delivered = <<>>
  /\ emits = 0

\* EventBus.subscribe(event, handler)
subscribe(event, handler) ==
  /\ emitting = NotEmitting
  /\ handler \notin Range(listeners[event])
  /\ (event = Wildcard) = (handler = "logger")
  /\ listeners' = [listeners EXCEPT ![event] = Append(@, handler)]
  /\ UNCHANGED <<emitting, delivered, emits, aggVars, mergeVars, orchVars, tcpdumpVars, dnsVars, nmapVars, cidrVars, arpVars, scanVars>>

\* a producer calls EventBus.emit(event, data): the call is entered
emit(event, producer) ==
  /\ emitting = NotEmitting
  /\ emits < MaxEmits
  /\ producer = "netbios" => event = "device:updated"
  /\ emitting' = [event |-> event, queue |-> listeners[event] \o listeners[Wildcard],
                  payload |-> payloadOf(producer)]
  /\ emits' = emits + 1
  /\ UNCHANGED <<listeners, delivered, aggVars, mergeVars, orchVars, tcpdumpVars, dnsVars, nmapVars, cidrVars, arpVars, scanVars>>

\* inside emit(): the next listener is called and runs to its end
callListener ==
  /\ emitting # NotEmitting
  /\ emitting.queue # <<>>
  /\ ~throws(Head(emitting.queue), emitting.payload)
  /\ delivered' = Append(delivered, [event |-> emitting.event, handler |-> Head(emitting.queue),
                                     emitReturned |-> FALSE, threw |-> FALSE])
  /\ emitting' = [emitting EXCEPT !.queue = Tail(@)]
  /\ UNCHANGED <<listeners, emits, aggVars, mergeVars, orchVars, tcpdumpVars, dnsVars, nmapVars, cidrVars, arpVars, scanVars>>

\* inside emit(): the next listener is called and throws; the exception
\* leaves emit() and reaches the producer, the listeners behind are not called
listenerThrows ==
  /\ emitting # NotEmitting
  /\ emitting.queue # <<>>
  /\ throws(Head(emitting.queue), emitting.payload)
  /\ delivered' = Append(delivered, [event |-> emitting.event, handler |-> Head(emitting.queue),
                                     emitReturned |-> FALSE, threw |-> TRUE])
  /\ emitting' = NotEmitting
  /\ UNCHANGED <<listeners, emits, aggVars, mergeVars, orchVars, tcpdumpVars, dnsVars, nmapVars, cidrVars, arpVars, scanVars>>

\* emit() returns to the producer, after the last listener
emitReturns ==
  /\ emitting # NotEmitting
  /\ emitting.queue = <<>>
  /\ emitting' = NotEmitting
  /\ UNCHANGED <<listeners, delivered, emits, aggVars, mergeVars, orchVars, tcpdumpVars, dnsVars, nmapVars, cidrVars, arpVars, scanVars>>

BusNext ==
  \/ \E e \in BusEvents \cup {Wildcard}, h \in BusHandlers : subscribe(e, h)
  \/ \E e \in BusEvents, p \in Producers : emit(e, p)
  \/ callListener
  \/ listenerThrows
  \/ emitReturns

----------------------------------------------------------------------------
(* TcpdumpScanner (src/unnamed/part_004): the output of the tcpdump        *)
(* process reaches the scanner in chunks of any size.  Text is a sequence  *)
(* of characters.                                                          *)

NewLine == "\n"

\* String.prototype.split('\n')
RECURSIVE SplitLines(_)
SplitLines(cs) ==
  IF NewLine \notin Range(cs) THEN <<cs>>
  ELSE <<BeforeFirst(cs, NewLine)>>
       \o SplitLines(SubSeq(cs, Len(BeforeFirst(cs, NewLine)) + 2, Len(cs)))

\* String.prototype.trim
RECURSIVE Trim(_)
Trim(cs) ==
  IF cs # <<>> /\ Head(cs) \in {" ", NewLine} THEN Trim(Tail(cs))
  ELSE IF cs # <<>> /\ cs[Len(cs)] \in {" ", NewLine} THEN Trim(SubSeq(cs, 1, Len(cs) - 1))
  ELSE cs

\* TcpdumpScanner._processOutput on the pieces of this.buffer + data: the
\* last piece stays in the buffer, the others go to _parseLine unless blank
processPieces(pieces) ==
  [buffer |-> pieces[Len(pieces)],
   lines  |-> SelectSeq(SubSeq(pieces, 1, Len(pieces) - 1), LAMBDA l : Trim(l) # <<>>)]

\* TcpdumpScanner._processOutput
processOutput(buf, data) == processPieces(SplitLines(buf \o data))

\* the listener of process.stderr in start(): the chunk is trimmed, dropped
\* when it names the interface or the packet counts, else handed on
stderrLine(data) ==
  IF /\ Trim(data) # <<>>
     /\ ~Includes(Trim(data), Chars("listening on"))
     /\ ~Includes(Trim(data), Chars("packets"))
    THEN Trim(data) ELSE <<>>

\* what tcpdump prints: two packet lines on its standard output, and on its
\* standard error nothing, one warning line or the line naming the interface
SnifferStdout == <<"a", "r", "p", NewLine, "i", "p", "6", NewLine>>

SnifferWarning == <<"w", NewLine>>

SnifferNotice == Chars("listening on") \o <<NewLine>>

TcpdumpIdle ==
  /\ buffer = <<>>
  /\ parsedLines = <<>>
  /\ stdoutRest = <<>>
  /\ stderrRest = <<>>

TcpdumpInit ==
  /\ buffer = <<>>
  /\ parsedLines = <<>>
  /\ stdoutRest = SnifferStdout
  /\ stderrRest \in {<<>>, SnifferWarning, SnifferNotice}

\* 'data' on process.stdout with the next n characters
StdoutData(n) ==
  /\ n \in 1..Len(stdoutRest)
  /\ buffer' = processOutput(buffer, SubSeq(stdoutRest, 1, n)).buffer
  /\ parsedLines' = parsedLines \o processOutput(buffer, SubSeq(stdoutRest, 1, n)).lines
  /\ stdoutRest' = SubSeq(stdoutRest, n + 1, Len(stdoutRest))
  /\ UNCHANGED <<stderrRest, aggVars, mergeVars, orchVars, busVars, dnsVars, nmapVars, cidrVars, arpVars, scanVars>>

\* 'data' on process.stderr with the next n characters
StderrData(n) ==
  /\ n \in 1..Len(stderrRest)
  /\ buffer' = processOutput(buffer, stderrLine(SubSeq(stderrRest, 1, n))).buffer
  /\ parsedLines' =
       parsedLines \o processOutput(buffer, stderrLine(SubSeq(stderrRest, 1, n))).lines
  /\ stderrRest' = SubSeq(stderrRest, n + 1, Len(stderrRest))
  /\ UNCHANGED <<stdoutRest, aggVars, mergeVars, orchVars, busVars, dnsVars, nmapVars, cidrVars, arpVars, scanVars>>

TcpdumpNext ==
  \/ \E n \in 1..Len(SnifferStdout) : StdoutData(n)
  \/ \E n \in 1..Len(SnifferNotice) : StderrData(n)

----------------------------------------------------------------------------
(* MdnsScanner._parseDnsName (src/src/scanners/MdnsScanner.js): one action *)
(* per way through the body of its while loop.                             *)

MaxName == 4        \* the bytes of a packet between its header and the record's fixed part

MaxParts == 2       \* the labels of parts the model keeps (the latest ones)

\* a response header: flags 0x8400, no question, one answer
DnsHeader == <<0, 0, 132, 0, 0, 0, 0, 1, 0, 0, 0, 0>>

\* type (2), class (2), ttl (4), rdlength (2) of the answer, and one byte more
RecordRest == <<0, 1, 0, 1, 0, 0, 0, 120, 0, 0, 0>>

\* 0 ends a name, 1 and 12 are label lengths, 97 is the letter a, 192 (0xc0)
\* starts a pointer, 12 and 14 are offsets behind the header
NameBytes == {0, 1, 12, 14, 97, 192}

RECURSIVE SeqsUpTo(_, _)
SeqsUpTo(S, n) ==
  IF n = 0 THEN {<<>>}
  ELSE SeqsUpTo(S, n - 1)
       \cup {Append(q, b) : q \in {r \in SeqsUpTo(S, n - 1) : Len(r) = n - 1}, b \in S}

Packets == {DnsHeader \o body \o RecordRest : body \in SeqsUpTo(NameBytes, MaxName) \ {<<>>}}

\* msg[i] of a Buffer: undefined (here -1) outside it
Undefined == 0 - 1

ByteAt(m, i) == IF i >= 0 /\ i < Len(m) THEN m[i + 1] ELSE Undefined

\* (len & 0xc0) === 0xc0
IsPointer(len) == (len \div 64) % 4 = 3

\* ((len & 0x3f) << 8) | msg[offset + 1], where | takes undefined as 0
PointerTarget(m, at) ==
  (ByteAt(m, at) % 64) * 256 + (IF ByteAt(m, at + 1) = Undefined THEN 0 ELSE ByteAt(m, at + 1))

\* msg.slice(offset, offset + len)
Slice(m, from, to) == SubSeq(m, from + 1, to)

\* parts.push(label), of which the model keeps the latest MaxParts
Push(list, label) ==
  IF Len(list) < MaxParts THEN Append(list, label) ELSE Append(Tail(list), label)

\* _parseDnsName has not returned
Running == [parts |-> <<>>, offset |-> Undefined]

DnsIdle ==
  /\ msg = <<>>
  /\ offset = 0
  /\ parts = <<>>
  /\ jumped = FALSE
  /\ jumpOffset = 0
  /\ iteration = 0
  /\ nameResult = Running

\* _parseMdnsResponse calls _parseDnsName(msg, 12): no question to skip
DnsInit ==
  /\ msg \in Packets
  /\ offset = Len(DnsHeader)
  /\ parts = <<>>
  /\ jumped = FALSE
  /\ jumpOffset = 0
  /\ iteration = 0
  /\ nameResult = Running

Looping == nameResult = Running /\ offset < Len(msg)

\* one more iteration of the while loop begins
Iterate == iteration' = (iteration + 1) % 2

Return(at) == [parts |-> parts, offset |-> IF jumped' THEN jumpOffset' ELSE at]

\* if (len === 0) { offset++; break; }
endOfName ==
  /\ Looping
  /\ Iterate
  /\ ByteAt(msg, offset) = 0
  /\ offset' = offset + 1
  /\ UNCHANGED <<msg, parts, jumped, jumpOffset>>
  /\ nameResult' = Return(offset + 1)
  /\ UNCHANGED <<aggVars, mergeVars, orchVars, busVars, tcpdumpVars, nmapVars, cidrVars, arpVars, scanVars>>

\* if ((len & 0xc0) === 0xc0) { ...; continue; }
followPointer ==
  /\ Looping
  /\ Iterate
  /\ ByteAt(msg, offset) # 0
  /\ IsPointer(ByteAt(msg, offset))
  /\ jumpOffset' = IF ~jumped THEN offset + 2 ELSE jumpOffset
  /\ offset' = PointerTarget(msg, offset)
  /\ jumped' = TRUE
  /\ UNCHANGED <<msg, parts, nameResult>>
  /\ UNCHANGED <<aggVars, mergeVars, orchVars, busVars, tcpdumpVars, nmapVars, cidrVars, arpVars, scanVars>>

\* offset++; parts.push(msg.slice(offset, offset + len)); offset += len
readLabel ==
  /\ Looping
  /\ Iterate
  /\ ByteAt(msg, offset) # 0
  /\ ~IsPointer(ByteAt(msg, offset))
  /\ offset + 1 + ByteAt(msg, offset) <= Len(msg)
  /\ parts' = Push(parts, Slice(msg, offset + 1, offset + 1 + ByteAt(msg, offset)))
  /\ offset' = offset + 1 + ByteAt(msg, offset)
  /\ UNCHANGED <<msg, jumped, jumpOffset, nameResult>>
  /\ UNCHANGED <<aggVars, mergeVars, orchVars, busVars, tcpdumpVars, nmapVars, cidrVars, arpVars, scanVars>>

\* offset++; if (offset + len > msg.length) break;
labelTooLong ==
  /\ Looping
  /\ Iterate
  /\ ByteAt(msg, offset) # 0
  /\ ~IsPointer(ByteAt(msg, offset))
  /\ offset + 1 + ByteAt(msg, offset) > Len(msg)
  /\ offset' = offset + 1
  /\ UNCHANGED <<msg, parts, jumped, jumpOffset>>
  /\ nameResult' = Return(offset + 1)
  /\ UNCHANGED <<aggVars, mergeVars, orchVars, busVars, tcpdumpVars, nmapVars, cidrVars, arpVars, scanVars>>

\* while (offset < msg.length) is false
endOfMessage ==
  /\ nameResult = Running
  /\ offset >= Len(msg)
  /\ UNCHANGED <<msg, offset, parts, jumped, jumpOffset, iteration>>
  /\ nameResult' = Return(offset)
  /\ UNCHANGED <<aggVars, mergeVars, orchVars, busVars, tcpdumpVars, nmapVars, cidrVars, arpVars, scanVars>>

DnsNext ==
  \/ endOfName
  \/ followPointer
  \/ readLabel
  \/ labelTooLong
  \/ endOfMessage

----------------------------------------------------------------------------
(* NmapScanner._detailedScan (src/src/scanners/NmapScanner.js)             *)

MaxHosts == 17      \* the live hosts of a run, at most

batchSize == 15

\* the batch never closed: every host from the start of the batch on
batchToTheEnd(n, from) == {h \in 0..(n - 1) : h >= from}

\* hosts.slice(from, from + batchSize), as the set of its positions
batch(n, from) == {h \in 0..(n - 1) : h >= from /\ h < from + batchSize}

NmapIdle ==
  /\ liveHosts = 0
  /\ batchStart = 0
  /\ inFlight = {}
  /\ scannedIn = <<>>
  /\ detailedScan = "returned"

\* start() calls _detailedScan(liveHosts, ...) when there is a live host
NmapInit ==
  /\ liveHosts \in 1..MaxHosts
  /\ batchStart = 0
  /\ inFlight = {}
  /\ scannedIn = [h \in 0..(liveHosts - 1) |-> <<>>]
  /\ detailedScan = "loop"

\* i < hosts.length: the batch is cut and _scanHost is called for each of its
\* hosts, up to the await of Promise.allSettled
startBatch ==
  /\ detailedScan = "loop"
  /\ batchStart < liveHosts
  /\ inFlight' = inFlight \cup batch(liveHosts, batchStart)
  /\ scannedIn' = [h \in DOMAIN scannedIn |->
                     IF h \in batch(liveHosts, batchStart)
                       THEN Append(scannedIn[h], batchStart) ELSE scannedIn[h]]
  /\ detailedScan' = "await"
  /\ UNCHANGED <<liveHosts, batchStart>>
  /\ UNCHANGED <<aggVars, mergeVars, orchVars, busVars, tcpdumpVars, dnsVars, cidrVars, arpVars, scanVars>>

\* _scanHost(host): nmap ends or is killed at its timeout; the promise
\* resolves with the device or, the error caught, with null
scanHostSettles(h) ==
  /\ h \in inFlight
  /\ inFlight' = inFlight \ {h}
  /\ UNCHANGED <<liveHosts, batchStart, scannedIn, detailedScan>>
  /\ UNCHANGED <<aggVars, mergeVars, orchVars, busVars, tcpdumpVars, dnsVars, cidrVars, arpVars, scanVars>>

\* Promise.allSettled resolves; _onProgress; i += batchSize
batchSettled ==
  /\ detailedScan = "await"
  /\ inFlight = {}
  /\ batchStart' = batchStart + batchSize
  /\ detailedScan' = "loop"
  /\ UNCHANGED <<liveHosts, inFlight, scannedIn>>
  /\ UNCHANGED <<aggVars, mergeVars, orchVars, busVars, tcpdumpVars, dnsVars, cidrVars, arpVars, scanVars>>

\* i < hosts.length is false
detailedScanReturns ==
  /\ detailedScan = "loop"
  /\ batchStart >= liveHosts
  /\ detailedScan' = "returned"
  /\ UNCHANGED <<liveHosts, batchStart, inFlight, scannedIn>>
  /\ UNCHANGED <<aggVars, mergeVars, orchVars, busVars, tcpdumpVars, dnsVars, cidrVars, arpVars, scanVars>>

NmapNext ==
  \/ startBatch
  \/ \E h \in 0..(MaxHosts - 1) : scanHostSettles(h)
  \/ batchSettled
  \/ detailedScanReturns

----------------------------------------------------------------------------
(* NetworkUtils.getCIDRRange (src/unnamed/part_011).  An address is its    *)
(* four octets.  The addresses are below 128.0.0.0 and the masks leave at  *)
(* most MaxHostBits bits to the host, which keeps every number below 2^31. *)

MaxHostBits == 24

RECURSIVE Pow2(_)
Pow2(n) == IF n = 0 THEN 1 ELSE 2 * Pow2(n - 1)

\* (a << 24) | (b << 16) | (c << 8) | d
ipToInt(ip) == ((ip[1] * 256 + ip[2]) * 256 + ip[3]) * 256 + ip[4]

\* [(int >>> 24) & 0xff, (int >>> 16) & 0xff, (int >>> 8) & 0xff, int & 0xff]
intToIp(int) ==
  <<(int \div Pow2(24)) % 256, (int \div Pow2(16)) % 256, (int \div Pow2(8)) % 256, int % 256>>

\* the bits that (-1 << (32 - maskBits)) >>> 0 clears: a shift count is taken
\* modulo 32
HostBits(maskBits) == (32 - maskBits) % 32

\* (ipInt & mask) >>> 0
getNetworkAddress(ip, maskBits) ==
  intToIp(ipToInt(ip) - (ipToInt(ip) % Pow2(HostBits(maskBits))))

\* (ipInt | ~mask) >>> 0
getBroadcastAddress(ip, maskBits) ==
  intToIp(ipToInt(ip) - (ipToInt(ip) % Pow2(HostBits(maskBits))) + Pow2(HostBits(maskBits)) - 1)

\* Math.pow(2, 32 - maskBits) - 2
getHostCount(maskBits) == Pow2(32 - maskBits) - 2

getCIDRRange(ip, mask) ==
  [network   |-> getNetworkAddress(ip, mask),
   broadcast |-> getBroadcastAddress(ip, mask),
   firstHost |-> intToIp(ipToInt(getNetworkAddress(ip, mask)) + 1),
   lastHost  |-> intToIp(ipToInt(getBroadcastAddress(ip, mask)) - 1),
   hostCount |-> getHostCount(mask)]

CidrAddresses == {<<10, 0, 0, 1>>, <<10, 1, 2, 3>>, <<100, 64, 0, 255>>, <<127, 0, 0, 1>>}

CidrMasks == {n \in 0..32 : 32 - n <= MaxHostBits}

NoCidr == [ip |-> <<0, 0, 0, 0>>, maskBits |-> 0]

NoRange ==
  [network |-> <<>>, broadcast |-> <<>>, firstHost |-> <<>>, lastHost |-> <<>>, hostCount |-> 0]

CidrIdle ==
  /\ cidr = NoCidr
  /\ cidrRange = NoRange

CidrInit ==
  /\ cidr \in [ip : CidrAddresses, maskBits : CidrMasks]
  /\ cidrRange = NoRange

\* a caller asks for the range of the CIDR
GetCIDRRange ==
  /\ cidrRange = NoRange
  /\ cidrRange' = getCIDRRange(cidr.ip, cidr.maskBits)
  /\ UNCHANGED cidr
  /\ UNCHANGED <<aggVars, mergeVars, orchVars, busVars, tcpdumpVars, dnsVars, nmapVars, arpVars, scanVars>>

CidrNext == GetCIDRRange

----------------------------------------------------------------------------
(* ArpScanner._parseArpOutput (src/unnamed/part_003), the branch for the    *)
(* output of arp -a on Unix and macOS                                       *)

\* String.prototype.split(sep)
RECURSIVE Split(_, _)
Split(cs, sep) ==
  IF sep \notin Range(cs) THEN <<cs>>
  ELSE <<BeforeFirst(cs, sep)>> \o Split(SubSeq(cs, Len(BeforeFirst(cs, sep)) + 2, Len(cs)), sep)

\* Array.prototype.join(sep)
RECURSIVE Join(_, _)
Join(list, sep) ==
  IF list = <<>> THEN <<>>
  ELSE IF Len(list) = 1 THEN list[1]
  ELSE list[1] \o <<sep>> \o Join(Tail(list), sep)

\* part.padStart(2, '0')
padStart2(part) ==
  IF Len(part) >= 2 THEN part
  ELSE IF Len(part) = 1 THEN <<"0">> \o part
  ELSE <<"0", "0">>

\* the address as arp printed it
noExpandMac(mac) == mac

\* ArpScanner._expandMac
expandMac(mac) ==
  IF mac = <<>> THEN mac
  ELSE Join([k \in DOMAIN Split(mac, ":") |-> padStart2(Split(mac, ":")[k])], ":")

\* the groups arp prints: it drops leading zeros
ArpGroups == {<<"0">>, <<"1">>, <<"5", "e">>, <<"f">>, <<"f", "f">>}

ArpIdle ==
  /\ arpLine = <<>>
  /\ arpDevices = <<>>

ArpInit ==
  /\ arpLine \in [1..6 -> ArpGroups]
  /\ arpDevices = <<>>

\* the address is skipped: mac.includes('ff:ff:ff') (no line of arp holds
\* 'incomplete' where the pattern wants an address)
skipped(mac) == Includes(mac, <<"f", "f", ":", "f", "f", ":", "f", "f">>)

\* the line matches; mac = this._expandMac(match[2]); the entry is skipped
parseArpLineSkipped ==
  /\ arpLine # <<>>
  /\ skipped(expandMac(Join(arpLine, ":")))
  /\ arpLine' = <<>>
  /\ UNCHANGED arpDevices
  /\ UNCHANGED <<aggVars, mergeVars, orchVars, busVars, tcpdumpVars, dnsVars, nmapVars, cidrVars, scanVars>>

\* the line matches; mac = this._expandMac(match[2]);
\* devices.push({ ..., mac: normalizeMac(mac), ... })
parseArpLine ==
  /\ arpLine # <<>>
  /\ ~skipped(expandMac(Join(arpLine, ":")))
  /\ arpDevices' = Append(arpDevices, [mac  |-> normalizeMacChars(expandMac(Join(arpLine, ":"))),
                                       line |-> arpLine])
  /\ arpLine' = <<>>
  /\ UNCHANGED <<aggVars, mergeVars, orchVars, busVars, tcpdumpVars, dnsVars, nmapVars, cidrVars, scanVars>>

ArpNext ==
  \/ parseArpLine
  \/ parseArpLineSkipped

----------------------------------------------------------------------------
(* From the wire to the stores: a driver parses what its tool prints and   *)
(* registers the device (BaseScanner._addDevice), the aggregator ingests   *)
(* the device broadcast, the orchestrator merges the driver's results      *)

ScanDrivers == {"arp", "tcpdump"}

\* what the tools print: the ARP table writes a hardware address in upper
\* case with hyphens (Windows) or in lower case with colons; a captured frame
\* has it in lower case with colons, beside an IPv4 or an IPv6 address
ArpEntries ==
  [driver : {"arp"}, kind : {"arp"}, mac : {"AA-BB-CC-DD-EE-01", "aa:bb:cc:dd:ee:01"},
   address : {Host.ipv4, "192.168.1.11"}]

Frames ==
  [driver : {"tcpdump"}, kind : {"IP"}, mac : {"aa:bb:cc:dd:ee:01"}, address : {Host.ipv4}]
  \cup [driver : {"tcpdump"}, kind : {"IP6"}, mac : {"aa:bb:cc:dd:ee:01"},
        address : {Host.ipv6, Neighbour.ipv6}]

Sightings == ArpEntries \cup Frames

\* the hardware address as the driver leaves it
rawMac(mac) == mac

\* mac: normalizeMac(mac) in every driver
parsedMac(mac) == normalizeMac(mac)

\* the device a driver builds from what it read, at time t; hostnamesByMac is
\* empty without DHCP traffic; an IPv6 entry is written as its address
parsed(s, t) ==
  CASE s.kind = "arp" ->
         [BlankObs EXCEPT !.ip = s.address, !.ipv4 = s.address, !.mac = parsedMac(s.mac),
                          !.lastSeen = t, !.source = "arp", !.discoveredVia = <<"arp">>]
    [] s.kind = "IP" ->
         [BlankObs EXCEPT !.ip = s.address, !.ipv4 = s.address, !.mac = parsedMac(s.mac),
                          !.lastSeen = t, !.source = "tcpdump",
                          !.discoveredVia = <<"passive-capture">>]
    [] OTHER ->
         [BlankObs EXCEPT !.mac = parsedMac(s.mac), !.ipv6 = <<s.address>>,
                          !.lastSeen = t, !.source = "tcpdump",
                          !.discoveredVia = <<"passive-capture">>]

\* the properties the object literal of the driver has
ownKeys(s) ==
  CASE s.kind = "arp" -> {"ip", "ipv4", "mac", "lastSeen", "source", "discoveredVia"}
    [] s.kind = "IP" ->
         {"ip", "ipv4", "mac", "hostname", "lastSeen", "source", "discoveredVia"}
    [] OTHER -> {"mac", "ipv6", "hostname", "lastSeen", "source", "discoveredVia"}

\* { ...existing, ...device }
spread(existing, device, own) ==
  [f \in DOMAIN existing |-> IF f \in own THEN device[f] ELSE existing[f]]

\* const key = device.ip || device.mac
scannerKey(device) == Or(device.ip, device.mac)

\* BaseScanner._addDevice: the map afterwards, and the event broadcast
registered(list, device, own) ==
  IF scannerKey(device) = NULL THEN [devices |-> list, event |-> NULL, device |-> device]
  ELSE IF \E i \in DOMAIN list : scannerKey(list[i]) = scannerKey(device)
    THEN LET i == CHOOSE j \in DOMAIN list : scannerKey(list[j]) = scannerKey(device)
         IN  [devices |-> [list EXCEPT ![i] = spread(@, device, own)],
              event   |-> "device:updated",
              device  |-> spread(list[i], device, own)]
  ELSE [devices |-> Append(list, device), event |-> "device:discovered", device |-> device]

\* the listeners of the DataAggregator, when it is loaded
listened(st, event, device, loaded, t) ==
  IF ~loaded \/ event = NULL THEN st
  ELSE IF event = "device:discovered" THEN addDevice(st, device, t)
  ELSE updateDevice(st, device, t)

ScanIdle ==
  /\ wire = <<>>
  /\ scannerDevices = [d \in ScanDrivers |-> <<>>]
  /\ mergeThrew = FALSE

Listened(st2) ==
  /\ devices' = st2.devices
  /\ ipv4Index' = st2.ipv4Index
  /\ ipv6Index' = st2.ipv6Index
  /\ now' = now + 1

\* everything the pipeline does not touch
PipelineFrame ==
  UNCHANGED <<ingested, last, linked, mergeVars, options, env, running, currentPhase,
              monitorInterval, scanners, netbios, pc, completed, stopLog, validation,
              scanErrors, expired, uncaught, netbiosResults,
              busVars, tcpdumpVars, dnsVars, nmapVars, cidrVars, arpVars>>

\* a driver reads s and registers the device
Sight(s) ==
  /\ Len(wire) < MaxObs
  /\ wire' = Append(wire, s)
  /\ scannerDevices' =
       [scannerDevices EXCEPT
          ![s.driver] = registered(@, parsed(s, now), ownKeys(s)).devices]
  /\ Listened(listened(Store,
                       registered(scannerDevices[s.driver], parsed(s, now), ownKeys(s)).event,
                       registered(scannerDevices[s.driver], parsed(s, now), ownKeys(s)).device,
                       env.loaded, now))
  /\ PipelineFrame
  /\ UNCHANGED <<orchDevices, mergeThrew>>

\* this._mergeResults(this.scanners[d].getResults())
MergeResults(d) ==
  /\ scannerDevices[d] # <<>>
  /\ orchDevices' = mergeResults(orchDevices, scannerDevices[d], env.loaded).devices
  /\ mergeThrew' = mergeResults(orchDevices, scannerDevices[d], env.loaded).threw
  /\ PipelineFrame
  /\ UNCHANGED <<devices, ipv4Index, ipv6Index, now, wire, scannerDevices>>

PipelineNext ==
  \/ \E s \in Sightings : Sight(s)
  \/ \E d \in ScanDrivers : MergeResults(d)

PipelineInit ==
  /\ ScanIdle
  /\ options = [scanLevel |-> "quick", fast |-> FALSE, watch |-> FALSE, passive |-> FALSE,
                ipv6 |-> FALSE]
  /\ env \in {[iface |-> TRUE, fault |-> "none", loaded |-> l, cli |-> FALSE,
                priv |-> TRUE, nmap |-> TRUE] : l \in BOOLEAN}
  /\ OrchIdle
  /\ AggIdle
  /\ MergeIdle
  /\ BusIdle
  /\ TcpdumpIdle
  /\ DnsIdle
  /\ NmapIdle
  /\ CidrIdle
  /\ ArpIdle

UtilIdle == BusIdle /\ TcpdumpIdle /\ DnsIdle /\ NmapIdle /\ CidrIdle /\ ArpIdle /\ ScanIdle

----------------------------------------------------------------------------
(* Specifications                                                           *)

OrchParked ==
  /\ options = [scanLevel |-> "quick", fast |-> FALSE, watch |-> FALSE, passive |-> FALSE,
                ipv6 |-> FALSE]
  /\ env = [iface |-> TRUE, fault |-> "none", loaded |-> FALSE, cli |-> FALSE,
            priv |-> TRUE, nmap |-> TRUE]
  /\ OrchIdle

AggInit == AggIdle /\ MergeIdle /\ OrchParked /\ UtilIdle

SpecAgg == AggInit /\ [][AggNext]_vars

SpecStore == AggInit /\ [][StoreNext]_vars

MergeSpecInit == MergeInit /\ AggIdle /\ OrchParked /\ UtilIdle

SpecMerge == MergeSpecInit /\ [][MergeNext]_vars

OrchInit ==
  /\ options \in Options
  /\ env \in Environments
  /\ OrchIdle
  /\ AggIdle
  /\ MergeIdle
  /\ UtilIdle

SpecOrch == OrchInit /\ [][OrchNext]_vars

BusInit == BusIdle /\ TcpdumpIdle /\ DnsIdle /\ NmapIdle /\ CidrIdle /\ ArpIdle /\ ScanIdle /\ AggIdle /\ MergeIdle /\ OrchParked

SpecBus == BusInit /\ [][BusNext]_vars

TcpdumpSpecInit == TcpdumpInit /\ BusIdle /\ DnsIdle /\ NmapIdle /\ CidrIdle /\ ArpIdle /\ ScanIdle /\ AggIdle /\ MergeIdle /\ OrchParked

SpecTcpdump == TcpdumpSpecInit /\ [][TcpdumpNext]_vars

DnsSpecInit == DnsInit /\ BusIdle /\ TcpdumpIdle /\ NmapIdle /\ CidrIdle /\ ArpIdle /\ ScanIdle /\ AggIdle /\ MergeIdle /\ OrchParked

\* the decoder is one synchronous loop: an iteration that can run does run
SpecDns == DnsSpecInit /\ [][DnsNext]_vars /\ WF_vars(DnsNext)

NmapSpecInit == NmapInit /\ BusIdle /\ TcpdumpIdle /\ DnsIdle /\ CidrIdle /\ ArpIdle /\ ScanIdle /\ AggIdle /\ MergeIdle /\ OrchParked

SpecNmap == NmapSpecInit /\ [][NmapNext]_vars

CidrSpecInit ==
  CidrInit /\ BusIdle /\ TcpdumpIdle /\ DnsIdle /\ NmapIdle /\ ArpIdle /\ ScanIdle /\ AggIdle /\ MergeIdle /\ OrchParked

SpecCidr == CidrSpecInit /\ [][CidrNext]_vars

ArpSpecInit == ArpInit /\ BusIdle /\ TcpdumpIdle /\ DnsIdle /\ NmapIdle /\ CidrIdle /\ ScanIdle /\ AggIdle /\ MergeIdle /\ OrchParked

SpecArp == ArpSpecInit /\ [][ArpNext]_vars

SpecPipeline == PipelineInit /\ [][PipelineNext]_vars

----------------------------------------------------------------------------
(* Properties                                                               *)

\* C1: after any sequence of ingestions no two stored records bear the
\* same MAC address.
C1_UniqueMac ==
  \A k1, k2 \in DOMAIN devices :
    (k1 # k2 /\ devices[k1].mac # NULL) => devices[k1].mac # devices[k2].mac

\* C2: once an observation with a MAC has been merged into an IPv4-only
\* record, every later observation with that MAC is merged into that same
\* record and creates no record.
C2_MacFollowsRecord ==
  \A p \in linked :
    (last.op # "none" /\ ObsMac(last.obs) = p[1]) => (last.key = p[2] /\ ~last.created)

\* C3: every IPv4 address and every IPv6 address that appears in a record
\* appears in exactly one record.
C3_UniqueAddresses ==
  \A k1, k2 \in DOMAIN devices :
    k1 # k2 =>
      /\ devices[k1].ipv4 # NULL => devices[k1].ipv4 # devices[k2].ipv4
      /\ {devices[k1].ipv6[i].address : i \in DOMAIN devices[k1].ipv6}
           \cap {devices[k2].ipv6[i].address : i \in DOMAIN devices[k2].ipv6} = {}

\* C4: a merge never changes a scalar field that is non-empty in the
\* record, in the aggregator's Device and in the orchestrator's object.
C4_ScalarsFirstWins ==
  mOp # "new" =>
    \A f \in ScalarFields :
      /\ mPrevDevice[f] # NULL => mDevice[f] = mPrevDevice[f]
      /\ mPrevExisting[f] # NULL => mExisting[f] = mPrevExisting[f]

\* C5: merging again an observation the record already reflects leaves the
\* record unchanged in every field, the services list included (the time
\* of the merge itself, lastSeen, is left out of the comparison).
C5_MergeIdempotent ==
  mOp = "remerge" =>
    /\ [mDevice EXCEPT !.lastSeen = 0] = [mPrevDevice EXCEPT !.lastSeen = 0]
    /\ [mExisting EXCEPT !.lastSeen = 0] = [mPrevExisting EXCEPT !.lastSeen = 0]

\* a record without its timestamps, its lists read as sets
Facts(d) ==
  [ scalars |-> [f \in ScalarFields \cup {"ip", "usage"} |-> d[f]],
    ipv6 |-> {d.ipv6[i].address : i \in DOMAIN d.ipv6},
    ports |-> Range(d.ports), services |-> Range(d.services),
    sources |-> Range(d.sources), discoveredVia |-> Range(d.discoveredVia),
    confidence |-> d.confidence ]

Records(st) == {Facts(st.devices[k]) : k \in DOMAIN st.devices}

OneDevice == \E h \in Hosts : \A i \in DOMAIN ingested : Concerns(ingested[i], h)

\* C6: when the ingested observations concern one device, ingesting them
\* in any other order gives the same records in every field other than
\* firstSeen and lastSeen.
C6_OrderIndependent ==
  (ingested # <<>> /\ OneDevice /\ Records(Store) = Records(Ingest(EmptyStore, ingested, 10)))
    => \A p \in Permutations(DOMAIN ingested) :
         Records(Ingest(EmptyStore, [i \in DOMAIN ingested |-> ingested[p[i]]], 10))
           = Records(Store)

\* C7: when stop() has returned, no driver is still running.
C7_StopHaltsDrivers ==
  \A i \in DOMAIN stopLog :
    stopLog[i].outcome = "returned" => stopLog[i].stillRunning = {}

\* C8: when the completion event is broadcast, no driver is running.
C8_CompleteAfterDriversStopped ==
  \A i \in DOMAIN completed : completed[i].stillRunning = {}

\* C9: the device set the completion event carries reflects every
\* observation a driver recorded before the event.
C9_CompletionDrainsObservations ==
  \A i \in DOMAIN completed : completed[i].unmerged = {}

\* C10: the failure of a single driver never aborts the scan.
C10_DriverFailureNeverAborts == uncaught # "driver"

\* the run meets a fatal initialisation error: no privileges, no nmap at a
\* level beyond quick, no network interface
FatalInit ==
  \/ ~env.priv
  \/ ~env.nmap /\ options.scanLevel # "quick"
  \/ ~env.iface

C12_FatalInitSurfaced ==
  (validation = "failed" \/ pc = "threw") => scanErrors # <<>>

\* C13: phase 0 is open only while a driver it awaits has neither returned
\* nor met its deadline; a driver whose deadline has elapsed is stopped and
\* no longer awaited.
C13_Phase0EndsWithDrivers ==
  /\ pc = "phase0" => \E d \in Awaited("phase0") : scanners[d].pending /\ d \notin expired
  /\ \A d \in expired : ~scanners[d].pending /\ ~scanners[d].running

\* phase 0 has ended by the deadline of the mDNS driver
C13_Phase0EndedByDeadline ==
  "mdns" \in expired /\ currentPhase = "fast-discovery"

\* phase 3 is under way: the monitoring interval is set and the process lives
Monitoring == monitorInterval /\ uncaught = "none"

\* C14: phase 3 is entered only in watch mode, and once entered it ends
\* only by a call of stop() from outside.
C14_Phase3OnlyWatchUntilStop ==
  /\ [](currentPhase = "passive-monitoring" => options.watch)
  /\ [][Monitoring => \/ Monitoring'
                      \/ uncaught' = "none" /\ Len(stopLog') > Len(stopLog)]_vars

\* C15: whenever phase 3 is entered the packet-capture driver started in
\* phase 1 is running, and it keeps running until stop() is called.
C15_CaptureRunsWhileMonitoring == Monitoring => scanners["tcpdump"].running

C17_DriverStopIdempotent ==
  \A d \in Drivers :
    scanners[d].created /\ ~scanners[d].running =>
      stopCall(d, scanners[d]) = [scanner |-> scanners[d], events |-> <<>>, rejects |-> FALSE]

\* the record or observation carries none of MAC, IPv4 and IPv6
Unidentified(d) == d.mac = NULL /\ d.ipv4 = NULL /\ d.ip = NULL /\ Len(d.ipv6) = 0

\* C18: every stored record has a MAC, an IPv4 or an IPv6 address, and an
\* observation with none of the three is never stored.
C18_StoredRecordsIdentified ==
  /\ \A k \in DOMAIN devices :
       devices[k].mac # NULL \/ devices[k].ipv4 # NULL \/ Len(devices[k].ipv6) > 0
  /\ (last.op # "none" /\ Unidentified(last.obs)) =>
       ~last.created /\ devices = Ingest(EmptyStore, SubSeq(ingested, 1, Len(ingested) - 1), 10).devices

C18_BlankObservationRefused ==
  last.op = "add" /\ Unidentified(last.obs) /\ Len(ingested) = 2 /\ Cardinality(DOMAIN devices) = 1

\* C19: after an observation (IPv4 A, hostname h) and then an observation
\* (IPv4 A, MAC M), the store holds one record, and the lookup by MAC M
\* returns it with hostname h.
C19_LookupByMacAfterLink ==
  ( /\ Len(ingested) = 2
    /\ ingested[1].mac = NULL /\ ingested[1].ipv6 = <<>> /\ ObsIpv4(ingested[1]) # NULL
    /\ ingested[1].hostname # NULL
    /\ ingested[2].mac # NULL /\ ingested[2].ipv6 = <<>>
    /\ ObsIpv4(ingested[2]) = ObsIpv4(ingested[1]) )
  => /\ Cardinality(DOMAIN devices) = 1
     /\ getDeviceByMAC(Store, ingested[2].mac) # NULL
     /\ getDeviceByMAC(Store, ingested[2].mac).hostname = ingested[1].hostname

\* the addresses are pairwise distinct once their zones are stripped
ZoneDistinct(addrs) ==
  \A i, j \in DOMAIN addrs :
    i # j => stripIPv6ZoneId(addrs[i]) # stripIPv6ZoneId(addrs[j])

\* C20: within a record the IPv6 addresses are pairwise distinct once the
\* zone identifiers are stripped: fe80::1%eth0 and fe80::1 make one entry.
C20_Ipv6DistinctZoneStripped ==
  /\ ZoneDistinct([i \in DOMAIN mDevice.ipv6 |-> mDevice.ipv6[i].address])
  /\ ZoneDistinct(mExisting.ipv6)

\* C21: after a merge the record's lastSeen is the later of its lastSeen
\* before the merge and the observation's timestamp (the time of the merge
\* when the observation carries none), so lastSeen never moves backwards.
C21_LastSeenIsMaximum ==
  mOp # "new" =>
    /\ mDevice.lastSeen >= mPrevDevice.lastSeen
    /\ mDevice.lastSeen >= (IF mUpdate.lastSeen # 0 THEN mUpdate.lastSeen ELSE mNow - 1)
    /\ mDevice.lastSeen \in {mPrevDevice.lastSeen, mUpdate.lastSeen, mNow - 1}
    /\ mExisting.lastSeen >= mPrevExisting.lastSeen
    /\ mExisting.lastSeen \in {mPrevExisting.lastSeen, mUpdate.lastSeen}

\* C22: firstSeen is set when the record is created and no later merge
\* changes it.
C22_FirstSeenKept ==
  /\ mDevice.firstSeen # 0
  /\ mOp # "new" =>
       /\ mDevice.firstSeen = mPrevDevice.firstSeen
       /\ mExisting.firstSeen = mPrevExisting.firstSeen

C22_MergedLaterThanCreated ==
  mOp = "merge" /\ mDevice.lastSeen > mDevice.firstSeen /\ mDevice.firstSeen = 10

\* the ports named by the entries of a services list
ServicePorts(services) == {services[i].port : i \in DOMAIN services}

\* C23: in every record the set of ports equals the set of ports that
\* appear in the record's services list.
C23_PortsAreServicePorts ==
  /\ Range(mDevice.ports) = ServicePorts(mDevice.services)
  /\ Range(mExisting.ports) = ServicePorts(mExisting.services)

\* C24: a record's usage is set only when the classifier's confidence for
\* the best category, computed from the record's fields, exceeds 30.
C24_UsageOnlyAboveThreshold ==
  \A k \in DOMAIN devices :
    devices[k].usage # NULL => infer(devices[k]).confidence > UsageThreshold

\* the confidence the present fields of a record are worth
FieldsWorth(d) ==
  LET sum == (IF d.ipv4 # NULL \/ d.ip # NULL THEN 15 ELSE 0)
           + (IF Len(d.ipv6) >= 1 THEN 10 ELSE 0)
           + (IF d.mac # NULL THEN 20 ELSE 0)
           + (IF d.hostname # NULL THEN 10 ELSE 0)
           + (IF d.manufacturer # NULL THEN 10 ELSE 0)
           + (IF d.os # NULL THEN 15 ELSE 0)
           + (IF d.model # NULL THEN 10 ELSE 0)
           + (IF d.usage # NULL THEN 10 ELSE 0)
           + (IF Len(d.ports) >= 1 THEN 5 ELSE 0)
           + (IF (d.ipv4 # NULL \/ d.ip # NULL) /\ Len(d.ipv6) >= 1 THEN 5 ELSE 0)
  IN  IF sum > 100 THEN 100 ELSE sum

\* C25: after every merge and enrichment a record's confidence is the value
\* recomputed from the fields it has: IPv4 15, IPv6 10, MAC 20, hostname 10,
\* manufacturer 10, OS 15, model 10, usage 10, a port 5, dual stack 5, at most 100.
C25_ConfidenceRecomputed ==
  \A k \in DOMAIN devices : devices[k].confidence = FieldsWorth(devices[k])

C25_MergedAndEnriched ==
  \E k \in DOMAIN devices :
    /\ last.key = k /\ ~last.created
    /\ devices[k].mac # NULL /\ devices[k].hostname # NULL /\ devices[k].usage # NULL
    /\ devices[k].confidence >= 55

\* C26: publishing an event returns control to the producer without waiting
\* for a subscriber's handler: no handler runs before emit() has returned.
C26_PublishDoesNotWait ==
  \A i \in DOMAIN delivered : delivered[i].emitReturned

\* the lines appear in the list in their order, each as it is
RECURSIVE IsSubsequence(_, _)
IsSubsequence(lines, list) ==
  \/ lines = <<>>
  \/ /\ list # <<>>
     /\ IF Head(lines) = Head(list) THEN IsSubsequence(Tail(lines), Tail(list))
        ELSE IsSubsequence(lines, Tail(list))

\* C27: the parser buffers partial lines across chunks: however the
\* sniffer's output is split into chunks, the complete lines of its packet
\* output are parsed as they were written, in order, and nothing else but
\* the lines of its other output.
C27_LinesIndependentOfChunks ==
  (stdoutRest = <<>> /\ stderrRest = <<>>) =>
    /\ IsSubsequence(SelectSeq(SplitLines(SnifferStdout), LAMBDA l : l # <<>>), parsedLines)
    /\ Range(parsedLines) \subseteq
         Range(SplitLines(SnifferStdout)) \cup Range(SplitLines(SnifferWarning))
           \cup Range(SplitLines(SnifferNotice))

\* C28: decoding a DNS name terminates on every packet, also when its
\* compression pointers point at themselves or form a cycle.
C28_DnsNameDecodingTerminates == <>(nameResult # Running)

\* C29: during the detailed pass at most 15 host scans are in flight at any
\* time, no host is scanned in more than one batch, and when the pass has
\* returned every live host was scanned in exactly one batch.
C29_BatchesBoundScans ==
  /\ Cardinality(inFlight) <= 15
  /\ \A h \in DOMAIN scannedIn : Len(scannedIn[h]) <= 1
  /\ detailedScan = "returned" => \A h \in DOMAIN scannedIn : Len(scannedIn[h]) = 1

\* a pass over more hosts than one batch holds has returned
C29_TwoBatchesScanned ==
  /\ detailedScan = "returned"
  /\ liveHosts > batchSize
  /\ scannedIn[0] = <<0>>
  /\ scannedIn[liveHosts - 1] = <<batchSize>>

\* C30: the host count of a CIDR is 2^(32-N) - 2 clamped to be at least 0:
\* /31 and /32 both yield 0, never a negative number.
C30_HostCountClamped ==
  cidrRange # NoRange =>
    /\ cidrRange.hostCount >= 0
    /\ (cidr.maskBits >= 31 => cidrRange.hostCount = 0)
    /\ (cidr.maskBits < 31 => cidrRange.hostCount = Pow2(32 - cidr.maskBits) - 2)

\* the canonical form of a group: two upper-case hex digits
CanonicalGroup(g) == ToUpperCase(IF Len(g) = 1 THEN <<"0">> \o g ELSE g)

C32_CompletionBroadcastOnce ==
  /\ Len(completed) <= 1
  /\ stopLog # <<>> => Len(completed) = 1
  /\ (pc = "returned" /\ ~options.watch) => Len(completed) = 1

\* C33: every device_discovered and device_updated event on the bus carries
\* the device record under the device field of its payload, whoever
\* publishes it, and the aggregator's listener raises no error into the
\* producer.
C33_PayloadCarriesDevice ==
  /\ emitting # NotEmitting => emitting.payload.device # NULL
  /\ \A i \in DOMAIN delivered : ~delivered[i].threw

\* C34: once stop() has been called, the interrupted start() run begins no
\* further phase and starts no further driver.
C34_NothingStartsAfterStop ==
  [][stopLog # <<>> =>
       /\ currentPhase' = currentPhase
       /\ \A d \in Drivers : scanners'[d].running => scanners[d].running]_vars

\* C35: after stop() has been called no periodic merge timer remains
\* scheduled, also when stop() came before a watching scan reached phase 3.
C35_NoTimerAfterStop == stopLog # <<>> => ~monitorInterval

\* the addresses a record bears
BearsIpv4(d, a) == a # NULL /\ (d.ipv4 = a \/ d.ip = a)

BearsIpv6(d, a) == \E i \in DOMAIN d.ipv6 : d.ipv6[i].address = a

\* C36: every entry of the IPv4 index and of the IPv6 index maps an address
\* to the key of a record that is stored and that bears that address.
C36_IndexesPointAtBearers ==
  /\ \A a \in DOMAIN ipv4Index :
       ipv4Index[a] \in DOMAIN devices /\ BearsIpv4(devices[ipv4Index[a]], a)
  /\ \A a \in DOMAIN ipv6Index :
       ipv6Index[a] \in DOMAIN devices /\ BearsIpv6(devices[ipv6Index[a]], a)

\* the records of the orchestrator's store that bear the IPv4 address a
Bearing(devs, a) == {k \in DOMAIN devs : devs[k].ip = a \/ devs[k].ipv4 = a}

\* the step in which _runNetbiosResolution resumes with a name for a
NetbiosAnswered(a) ==
  /\ pc = "netbiosResolution"
  /\ pc' # "netbiosResolution"
  /\ a \in netbiosResults'

\* C37: when the per-IP NetBIOS resolution of PHASE1 returns a name for an
\* IPv4 address, every record that bears the address and had no hostname has
\* the name afterwards, whichever identifier it is keyed by.
C37_NetbiosNameReachesRecord ==
  [][\A a \in {Host.ipv4, Neighbour.ipv4} :
        NetbiosAnswered(a) =>
          \A k \in Bearing(orchDevices, a) :
             k \in DOMAIN orchDevices' /\ orchDevices'[k].hostname # NULL]_vars

\* the same hardware address, whatever the letter case and the separators
SameMac(a, b) == a # NULL /\ b # NULL /\ cleanedMac(Chars(a)) = cleanedMac(Chars(b))

ScalarNames ==
  {"ip", "ipv4", "mac", "hostname", "manufacturer", "os", "osVersion", "model", "usage",
   "workgroup", "fqdn"}

CollectionNames == {"ports", "services", "ipv6", "sources"}

\* new keeps what old knew: no known scalar is emptied, no collection loses
\* an element
Keeps(old, new) ==
  /\ \A f \in ScalarNames \cap DOMAIN old : old[f] # NULL => new[f] # NULL
  /\ \A f \in CollectionNames \cap DOMAIN old : Range(old[f]) \subseteq Range(new[f])

\* a driver's registration keeps what its record knew
ScannerKeeps ==
  \A d \in ScanDrivers : \A i \in DOMAIN scannerDevices[d] :
     Keeps(scannerDevices[d][i], scannerDevices'[d][i])

\* the orchestrator's merge keeps what its record knew
OrchestratorKeeps ==
  \A k \in DOMAIN orchDevices : k \in DOMAIN orchDevices' /\ Keeps(orchDevices[k], orchDevices'[k])

\* the aggregator's merge keeps what its record knew
AggregatorKeeps ==
  \A k \in DOMAIN devices : k \in DOMAIN devices' /\ Keeps(devices[k], devices'[k])

\* C39: no merge step of the pipeline, a driver's registration, the
\* orchestrator's merge or the aggregator's merge, replaces a known non-empty
\* field of a device by an empty value or drops an element of ports,
\* services, IPv6 addresses or sources.
C39_MergeStepsKeepWhatIsKnown ==
  [][ScannerKeeps /\ OrchestratorKeeps /\ AggregatorKeeps]_vars

====
